---- MODULE Spec2Model ----
(***************************************************************************)
(* A model of dar_logic.py: the line scanner parse_events, its inner       *)
(* flush_event, the classifier classify, the line builder                  *)
(* build_event_line and the final placeholder / transient / sort pass.     *)
(*                                                                         *)
(* Text is modelled by TLA+ strings, character by character: Python's      *)
(* str methods (lower, strip, split, startswith, "in") and the regular     *)
(* expressions the code applies are operators over strings below.  The     *)
(* one character the module cannot hold is the en dash U+2013 the code     *)
(* joins the parts of an entry with; it is written EnDash (a tilde).       *)
(***************************************************************************)
EXTENDS Integers, Sequences, FiniteSets, TLC

(***************************************************************************)
(* Python str primitives                                                   *)
(***************************************************************************)
LowerAlpha == "abcdefghijklmnopqrstuvwxyz"
UpperAlpha == "ABCDEFGHIJKLMNOPQRSTUVWXYZ"
DigitAlpha == "0123456789"

Char(s, i) == SubSeq(s, i, i)

CharsOf(s) == {Char(s, i) : i \in 1..Len(s)}

LowerSet ==
    {"a", "b", "c", "d", "e", "f", "g", "h", "i", "j", "k", "l", "m",
     "n", "o", "p", "q", "r", "s", "t", "u", "v", "w", "x", "y", "z"}
UpperSet ==
    {"A", "B", "C", "D", "E", "F", "G", "H", "I", "J", "K", "L", "M",
     "N", "O", "P", "Q", "R", "S", "T", "U", "V", "W", "X", "Y", "Z"}
DigitSet == {"0", "1", "2", "3", "4", "5", "6", "7", "8", "9"}
AlphaSet ==
    {"a", "b", "c", "d", "e", "f", "g", "h", "i", "j", "k", "l", "m",
     "n", "o", "p", "q", "r", "s", "t", "u", "v", "w", "x", "y", "z",
     "A", "B", "C", "D", "E", "F", "G", "H", "I", "J", "K", "L", "M",
     "N", "O", "P", "Q", "R", "S", "T", "U", "V", "W", "X", "Y", "Z"}
\* the white space a document line or a joined block can hold
SpaceSet == {" ", "\n"}

IndexIn(c, alpha) == CHOOSE i \in 1..Len(alpha) : Char(alpha, i) = c

\* the character of alphabet to that stands where c stands in from
Swap(c, from, to) == Char(to, IndexIn(c, from))

LowerChar(c) == IF c \in UpperSet THEN Swap(c, UpperAlpha, LowerAlpha) ELSE c
UpperChar(c) == IF c \in LowerSet THEN Swap(c, LowerAlpha, UpperAlpha) ELSE c

\* s.lower(), s.upper(): character by character, by halves
RECURSIVE Lower(_)
Lower(s) ==
    IF Len(s) <= 1 THEN LowerChar(s)
    ELSE Lower(SubSeq(s, 1, Len(s) \div 2)) \o Lower(SubSeq(s, Len(s) \div 2 + 1, Len(s)))

RECURSIVE Upper(_)
Upper(s) ==
    IF Len(s) <= 1 THEN UpperChar(s)
    ELSE Upper(SubSeq(s, 1, Len(s) \div 2)) \o Upper(SubSeq(s, Len(s) \div 2 + 1, Len(s)))

\* k in s
Contains(s, k) ==
    \E i \in 1..(Len(s) - Len(k) + 1) : SubSeq(s, i, i + Len(k) - 1) = k

StartsWith(s, p) == Len(p) <= Len(s) /\ SubSeq(s, 1, Len(p)) = p
EndsWith(s, p) == Len(p) <= Len(s) /\ SubSeq(s, Len(s) - Len(p) + 1, Len(s)) = p

\* s.find(k), 0 when absent (positions count from 1)
Find(s, k) ==
    IF Contains(s, k)
    THEN CHOOSE i \in 1..(Len(s) - Len(k) + 1) :
            /\ SubSeq(s, i, i + Len(k) - 1) = k
            /\ \A j \in 1..(i - 1) : SubSeq(s, j, j + Len(k) - 1) # k
    ELSE 0

\* the positions of s whose character is not in cs
Outside(s, cs) == {i \in 1..Len(s) : Char(s, i) \notin cs}

SetMax(S) == CHOOSE x \in S : \A y \in S : y <= x
SetMin(S) == CHOOSE x \in S : \A y \in S : x <= y

\* s from the first of the positions keep on, s up to the last of them
FromFirst(s, keep) == IF keep = {} THEN "" ELSE SubSeq(s, SetMin(keep), Len(s))
UpToLast(s, keep) == IF keep = {} THEN "" ELSE SubSeq(s, 1, SetMax(keep))

LStripChars(s, cs) == FromFirst(s, Outside(s, cs))
RStripChars(s, cs) == UpToLast(s, Outside(s, cs))

\* s.strip(chars)
StripChars(s, cs) == RStripChars(LStripChars(s, cs), cs)

\* s.strip()
Strip(s) == StripChars(s, SpaceSet)

\* s.split(): the maximal runs of non-blank characters
\* the k-th smallest member of a set of numbers
Nth(S, k) == CHOOSE i \in S : Cardinality({j \in S : j < i}) = k - 1

\* the pieces of s that start at starts and end at ends
Pieces(s, starts, ends) ==
    [k \in 1..Cardinality(starts) |-> SubSeq(s, Nth(starts, k), Nth(ends, k))]

IsBlankAt(s, i) == i < 1 \/ i > Len(s) \/ SubSeq(s, i, i) \in SpaceSet

Split(s) ==
    Pieces(s, {i \in 1..Len(s) : ~IsBlankAt(s, i) /\ IsBlankAt(s, i - 1)},
              {i \in 1..Len(s) : ~IsBlankAt(s, i) /\ IsBlankAt(s, i + 1)})

\* the list [x] unless x is empty
Kept(x) == IF x # "" THEN <<x>> ELSE <<>>

\* sep.join(parts)
RECURSIVE Join(_, _)
Join(parts, sep) ==
    IF parts = <<>> THEN ""
    ELSE IF Len(parts) = 1 THEN parts[1]
    ELSE Join(SubSeq(parts, 1, Len(parts) \div 2), sep) \o sep
         \o Join(SubSeq(parts, Len(parts) \div 2 + 1, Len(parts)), sep)

\* ln.split(":", 1)[-1].strip()
AfterColon(ln) == Strip(SubSeq(ln, Find(ln, ":") + 1, Len(ln)))

\* w.capitalize()
Capitalize(w) ==
    IF w = "" THEN "" ELSE UpperChar(Head(w)) \o Lower(Tail(w))

\* w.isupper(): a cased character, and no lower-case one
IsUpper(w) == CharsOf(w) \cap UpperSet # {} /\ CharsOf(w) \cap LowerSet = {}
\* w.islower()
IsLower(w) == CharsOf(w) \cap LowerSet # {} /\ CharsOf(w) \cap UpperSet = {}

AllIn(s, cs) == \A i \in 1..Len(s) : Char(s, i) \in cs

\* int(s) for a string of digits
RECURSIVE ToInt(_)
ToInt(s) ==
    IF s = "" THEN 0
    ELSE 10 * ToInt(SubSeq(s, 1, Len(s) - 1)) + (IndexIn(Char(s, Len(s)), DigitAlpha) - 1)

\* str(n) for n >= 0
RECURSIVE ToStr(_)
ToStr(n) ==
    IF n < 10 THEN Char(DigitAlpha, n + 1)
    ELSE ToStr(n \div 10) \o Char(DigitAlpha, (n % 10) + 1)

\* f"{n:02d}"
Pad2(n) == IF n < 10 THEN "0" \o ToStr(n) ELSE ToStr(n)

(***************************************************************************)
(* Regular expressions.  A pattern is a sequence of atoms; an atom is a    *)
(* character class with a repetition count {lo,hi} (hi = -1: unbounded),   *)
(* greedy unless lazy, or the zero-width word boundary \b.  This covers    *)
(* the expressions of the code that are modelled here; an alternation      *)
(* (a|b) is written as one pattern per alternative, tried in order.        *)
(***************************************************************************)
WordSet ==
    {"a", "b", "c", "d", "e", "f", "g", "h", "i", "j", "k", "l", "m",
     "n", "o", "p", "q", "r", "s", "t", "u", "v", "w", "x", "y", "z",
     "A", "B", "C", "D", "E", "F", "G", "H", "I", "J", "K", "L", "M",
     "N", "O", "P", "Q", "R", "S", "T", "U", "V", "W", "X", "Y", "Z",
     "0", "1", "2", "3", "4", "5", "6", "7", "8", "9", "_"}

Atom(k, cs, lo, hi, lazy, subs) ==
    [k |-> k, cs |-> cs, lo |-> lo, hi |-> hi, lazy |-> lazy, subs |-> subs]
\* a character class repeated {lo,hi}
Rep(cs, lo, hi) == Atom("cls", cs, lo, hi, FALSE, <<>>)
One(cs) == Rep(cs, 1, 1)
Opt(cs) == Rep(cs, 0, 1)
Star(cs) == Rep(cs, 0, -1)
Plus(cs) == Rep(cs, 1, -1)
LazyPlus(cs) == Atom("cls", cs, 1, -1, TRUE, <<>>)
LazyStar(cs) == Atom("cls", cs, 0, -1, TRUE, <<>>)
\* \b and $
WB == Atom("wb", {}, 0, 0, FALSE, <<>>)
EOS == Atom("end", {}, 0, 0, FALSE, <<>>)
\* (?:p1|p2|...): the alternatives in the order they are tried
Alt(subs) == Atom("alt", {}, 0, 0, FALSE, subs)
\* (?:p)?
Maybe(p) == Alt(<<p, <<>>>>)

\* the literal text s, and the same under re.IGNORECASE
Lit(s) == [i \in 1..Len(s) |-> One({Char(s, i)})]
LitI(s) == [i \in 1..Len(s) |-> One({LowerChar(Char(s, i)), UpperChar(Char(s, i))})]
\* the literal text s under re.IGNORECASE, as one atom
Phrase(s) == Atom("txt", {Lower(s)}, Len(s), Len(s), FALSE, <<>>)
\* (?:w1|w2|...) for literal words, under re.IGNORECASE
WordsI(ws) == Alt([j \in 1..Len(ws) |-> LitI(ws[j])])

\* how many characters from pos on lie in cs, at most hi of them
RunTo(s, pos, cs, lim) ==
    IF lim <= 0 THEN 0
    ELSE SetMin({n \in 0..lim : n = lim \/ SubSeq(s, pos + n, pos + n) \notin cs})

RunLim(left, hi) == IF hi < 0 \/ left < hi THEN left ELSE hi

RunLen(s, pos, cs, hi) == RunTo(s, pos, cs, RunLim(Len(s) - pos + 1, hi))

IsWordAt(s, pos) == pos >= 1 /\ pos <= Len(s) /\ SubSeq(s, pos, pos) \in WordSet

\* \b between the characters pos-1 and pos
BoundaryAt(s, pos) == IsWordAt(s, pos - 1) # IsWordAt(s, pos)

\* the positions at which a match of pat that starts at pos can end
RECURSIVE MatchEnds(_, _, _)
MatchEnds(s, pos, pat) ==
    IF pat = <<>> THEN {pos}
    ELSE CASE pat[1].k = "wb" ->
                IF BoundaryAt(s, pos) THEN MatchEnds(s, pos, Tail(pat)) ELSE {}
           [] pat[1].k = "end" ->
                IF pos = Len(s) + 1 THEN MatchEnds(s, pos, Tail(pat)) ELSE {}
           [] pat[1].k = "txt" ->
                IF /\ pos + pat[1].lo - 1 <= Len(s)
                   /\ Lower(SubSeq(s, pos, pos + pat[1].lo - 1)) \in pat[1].cs
                THEN MatchEnds(s, pos + pat[1].lo, Tail(pat)) ELSE {}
           [] pat[1].k = "alt" ->
                UNION {MatchEnds(s, pos, pat[1].subs[j] \o Tail(pat)) :
                          j \in 1..Len(pat[1].subs)}
           [] OTHER ->
                UNION {MatchEnds(s, pos + n, Tail(pat)) :
                          n \in pat[1].lo..RunLen(s, pos, pat[1].cs, pat[1].hi)}

RECURSIVE SumTo(_, _)
SumTo(lens, n) == IF n = 0 THEN 0 ELSE lens[n] + SumTo(lens, n - 1)

\* the length each atom takes in the match the backtracking matcher finds
\* first (pat matches at pos): a greedy atom as long, a lazy one as short,
\* as the rest allows; of alternatives the first the rest allows
RECURSIVE AtomLens(_, _, _)
Pick(lazy, S) == IF lazy THEN SetMin(S) ELSE SetMax(S)

AltLen(s, pos, sub, rest) == SumTo(AtomLens(s, pos, sub \o rest), Len(sub))

AtomLen(s, pos, a, rest) ==
    CASE a.k \in {"wb", "end"} -> 0
      [] a.k = "txt" -> a.lo
      [] a.k = "alt" ->
           AltLen(s, pos, a.subs[SetMin({x \in 1..Len(a.subs) :
                                   MatchEnds(s, pos, a.subs[x] \o rest) # {}})], rest)
      [] OTHER ->
           Pick(a.lazy, {n \in a.lo..RunLen(s, pos, a.cs, a.hi) :
                            MatchEnds(s, pos + n, rest) # {}})

AtomLensFrom(s, pos, n, rest) == <<n>> \o AtomLens(s, pos + n, rest)

AtomLens(s, pos, pat) ==
    IF pat = <<>> THEN <<>>
    ELSE AtomLensFrom(s, pos, AtomLen(s, pos, Head(pat), Tail(pat)), Tail(pat))

\* re.match(pat, s)
MatchesAt(s, pos, pat) == MatchEnds(s, pos, pat) # {}
ReMatch(s, pat) == MatchesAt(s, 1, pat)
\* re.match(pat + "$", s)
ReFullMatch(s, pat) == (Len(s) + 1) \in MatchEnds(s, 1, pat)
\* re.search(pat, s)
ReSearch(s, pat) == \E p \in 1..(Len(s) + 1) : MatchesAt(s, p, pat)
\* where the leftmost match starts (ReSearch holds)
SearchStart(s, pat) == SetMin({p \in 1..(Len(s) + 1) : MatchesAt(s, p, pat)})

\* the text the atoms from..to of pat take in the match at pos
Span(s, pos, lens, from, to) ==
    SubSeq(s, pos + SumTo(lens, from - 1), pos + SumTo(lens, to) - 1)

Group(s, pos, pat, from, to) == Span(s, pos, AtomLens(s, pos, pat), from, to)

\* where pat matches in s
Found(s, pat) == {p \in 1..(Len(s) + 1) : MatchesAt(s, p, pat)}

GroupOr(s, found, pat, from, to, none) ==
    IF found = {} THEN none ELSE Group(s, SetMin(found), pat, from, to)

\* m.group() for m = re.search(pat, s), restricted to the atoms from..to; none
\* when there is no match
SearchGroupOr(s, pat, from, to, none) == GroupOr(s, Found(s, pat), pat, from, to, none)

\* m.group() for m = re.search(pat, s), restricted to the atoms from..to
SearchGroup(s, pat, from, to) == Group(s, SearchStart(s, pat), pat, from, to)

\* where the leftmost match ends
MatchEnd(s, p, pat) == p + SumTo(AtomLens(s, p, pat), Len(pat))

SearchEnd(s, pat) == MatchEnd(s, SearchStart(s, pat), pat)

(***************************************************************************)
(* Module-level tables and pure helpers of dar_logic.py                    *)
(***************************************************************************)
EnDash == "~"

SECTIONS ==
    << "Incident Reports (IR) / Alarms",
       "Elevator Entrapment Incidents",
       "SPD Presence/Emergency Response on Site",
       "Property Damage",
       "Tenant Issues",
       "Retail Issues",
       "Transient Removal",
       "Key Service (Lock & Unlock)",
       "Loading Dock Access (Lock & Unlock)",
       "Fire Panel Bypass/Online",
       "AES Phone Calls",
       "Work Orders",
       "Janitorial",
       "Additional Information" >>

VERB_MAP ==
    ("open" :> "opened") @@ ("unlock" :> "unlocked") @@ ("lock" :> "locked") @@
    ("secure" :> "secured") @@ ("issue" :> "issued") @@ ("collect" :> "collected") @@
    ("deliver" :> "delivered") @@ ("remove" :> "removed") @@ ("escort" :> "escorted") @@
    ("close" :> "closed") @@ ("receive" :> "received") @@ ("call" :> "called") @@
    ("handle" :> "handled") @@ ("extend" :> "extended") @@ ("bypass" :> "bypassed") @@
    ("bring" :> "brought") @@ ("brought" :> "brought") @@ ("put" :> "put") @@
    ("was" :> "was") @@ ("putted" :> "put") @@ ("puted" :> "put") @@ ("set" :> "set") @@
    ("hit" :> "hit") @@ ("cut" :> "cut") @@ ("shut" :> "shut") @@ ("leave" :> "left")

\* the same with "ed" appended to every word outside the map
PastOfAlwaysEd(first, word) ==
    IF first \in DOMAIN VERB_MAP THEN VERB_MAP[first]
    ELSE IF ~EndsWith(first, "ed") THEN first \o "ed" ELSE word

\* the first word in the past tense (lines 97-101): first is the word in
\* lower case
PastOf(first, word) ==
    IF first \in DOMAIN VERB_MAP THEN VERB_MAP[first]
    ELSE IF ~EndsWith(first, "ed")
         THEN first \o (IF EndsWith(first, "e") THEN "d" ELSE "ed")
         ELSE word

PastWords(text, words) ==
    IF text = "" \/ words = <<>> THEN text
    ELSE Join(<<PastOf(Lower(words[1]), words[1])>> \o Tail(words), " ")

to_past_tense(text) == PastWords(text, Split(text))

\* n without the prefix that ends where ends says, if any
CutPrefix(n, ends) == IF ends = {} THEN n ELSE SubSeq(n, SetMax(ends), Len(n))

\* re.sub(r"^(Officer|S/O)\s+", "", n, flags=re.IGNORECASE)
StripOfficerPrefix(n) ==
    CutPrefix(n, MatchEnds(n, 1, <<Alt(<<LitI("Officer"), LitI("S/O")>>), Plus(SpaceSet)>>))

CapitalizeAll(parts) == Join([j \in 1..Len(parts) |-> Capitalize(parts[j])], " ")

\* LAST First becomes First Last (lines 175-181)
BoldNames(first, second) ==
    IF IsUpper(first) /\ IsUpper(Char(second, 1))
       /\ IsLower(SubSeq(second, 2, Len(second)))
    THEN Capitalize(second) \o " " \o Capitalize(first)
    ELSE Capitalize(first) \o " " \o Capitalize(second)

BoldParts(parts) ==
    IF Len(parts) = 2 THEN BoldNames(parts[1], parts[2]) ELSE CapitalizeAll(parts)

Bold(n0) ==
    IF n0 = "" THEN ""
    ELSE "<b>Officer " \o BoldParts(Split(StripOfficerPrefix(n0))) \o "</b>"

bold_officer(name) == Bold(Strip(name))

(***************************************************************************)
(* An event buffer is a Python dict from field names to text: a function   *)
(* whose domain is the set of keys present.                                *)
(***************************************************************************)
EmptyBuf == [x \in {} |-> ""]
\* buffer.get(k, "")
Get(b, k) == IF k \in DOMAIN b THEN b[k] ELSE ""
\* buffer[k] = v
Put(b, k, v) == [x \in (DOMAIN b) \cup {k} |-> IF x = k THEN v ELSE b[x]]
\* buffer.pop(k, None)
Pop(b, k) == [x \in (DOMAIN b) \ {k} |-> b[x]]
\* buffer.update(d)
Update(b, d) == [x \in (DOMAIN b) \cup (DOMAIN d) |-> IF x \in DOMAIN d THEN d[x] ELSE b[x]]

ContainsAny(txt, keys) == \E k \in keys : Contains(txt, k)

(***************************************************************************)
(* classify(buffer, labels).  labels is the label set in the order its     *)
(* iteration yields (the order of a Python set of str is not fixed).       *)
(***************************************************************************)
\* the rules of the explicit layer (lines 197-216) for the lower-cased
\* category text cat, "" if none decides; dock tells whether the Loading
\* Dock rule may decide
ExplicitRule(cat, dock) ==
    IF Contains(cat, "aes phone call") THEN "AES Phone Calls"
    ELSE IF (Contains(cat, "loading dock") \/ Contains(cat, "dock gate")) /\ dock
         THEN "Loading Dock Access (Lock & Unlock)"
    ELSE IF Contains(cat, "key service") \/ Contains(cat, "key")
         THEN "Key Service (Lock & Unlock)"
    ELSE IF \/ Contains(cat, "bypass online") \/ Contains(cat, "fire panel")
            \/ Contains(cat, "fire system online") \/ Contains(cat, "until")
         THEN "Fire Panel Bypass/Online"
    ELSE IF Contains(cat, "transient") THEN "Transient Removal"
    ELSE IF Contains(cat, "work order") THEN "Work Orders"
    ELSE IF Contains(cat, "retail") THEN "Retail Issues"
    ELSE IF Contains(cat, "incident report") \/ Contains(cat, "alarm")
         THEN "Incident Reports (IR) / Alarms"
    ELSE IF Contains(cat, "janitorial") THEN "Janitorial"
    ELSE IF Contains(cat, "other/miscellaneous") THEN "Additional Information"
    ELSE ""

\* the same with the Loading Dock rule blind to the action
ExplicitCategoryAnyAction(cat, action) == ExplicitRule(cat, TRUE)

\* the explicit layer: "abm" not in buffer.get("action", "").lower() guards
\* the Loading Dock rule (line 199)
ExplicitCategory(cat, action) == ExplicitRule(cat, ~Contains(Lower(action), "abm"))

\* re.search(r"\bkey\s*(lock|unlock|service|issued|return|pickup|drop|set)?\b", txt)
KeyWordRx(txt) ==
    \/ ReSearch(txt, <<WB>> \o Lit("key") \o <<Star(SpaceSet), WB>>)
    \/ \E w \in {"lock", "unlock", "service", "issued", "return", "pickup", "drop", "set"} :
          ReSearch(txt, <<WB>> \o Lit("key") \o <<Star(SpaceSet)>> \o Lit(w) \o <<WB>>)

\* re.search(r"\b(ir|incident)\s*#\s*\d+", txt)
IrNumberRx(txt) ==
    \E w \in {"ir", "incident"} :
        ReSearch(txt, <<WB>> \o Lit(w) \o <<Star(SpaceSet)>> \o Lit("#")
                        \o <<Star(SpaceSet), Plus(DigitSet)>>)

TenantWords ==
    {"issue", "concern", "complaint", "problem", "request", "notify", "notified", "reported"}

\* the first keyword of the list only
ElevatorKeywordsFirstOnly == {"elevator entrapment incident"}

\* the keywords of the first rule (lines 229-237)
ElevatorKeywords ==
    {"elevator entrapment incident", "stuck in elevator", "elevator incident",
     "got stuck in cap", "doors stayed closed", "kone technician", "otis elevator"}

\* the heuristic layer over the joined lower-case text
Heuristic(txt, category) ==
    IF ContainsAny(txt, ElevatorKeywords)
    THEN "Elevator Entrapment Incidents"
    ELSE IF /\ Contains(txt, "tenant") /\ ContainsAny(txt, TenantWords)
            /\ ~ContainsAny(txt, {"elevator", "entrapment", "stuck in elevator", "kone", "otis"})
    THEN "Tenant Issues"
    ELSE IF /\ ContainsAny(txt, {"damage", "damaged", "bent", "broken", "crack", "dent",
                                 "unable to close", "hit", "struck", "collision", "impact"})
            /\ ContainsAny(txt, {"gate", "door", "frame", "lock", "glass",
                                 "loading dock", "dock gate"})
    THEN "Property Damage"
    ELSE IF /\ ContainsAny(txt, {"elevator", "entrapment", "stuck in elevator"})
            /\ ~Contains(txt, "tenant")
    THEN "Elevator Entrapment Incidents"
    ELSE IF ContainsAny(txt, {"spd presence/emergency response on site", "spd presence",
                              "emergency response on site", "spd response", "sfd medics",
                              "911 called", "police responded", "medical emergency on site",
                              "officer contacted spd", "security called 911",
                              "security called spd"})
    THEN "SPD Presence/Emergency Response on Site"
    ELSE IF \/ (Contains(txt, "spd") /\ Contains(txt, "response"))
            \/ Contains(txt, "emergency response on site")
    THEN "SPD Presence/Emergency Response on Site"
    ELSE IF /\ Contains(txt, "tenant") /\ ContainsAny(txt, TenantWords)
            /\ ~ContainsAny(txt, {"elevator", "entrapment", "stuck in elevator"})
    THEN "Tenant Issues"
    ELSE IF Contains(txt, "aes") \/ Contains(txt, "phone call")
    THEN "AES Phone Calls"
    ELSE IF /\ (Contains(txt, "loading dock") \/ Contains(txt, "dock gate"))
            /\ ~ContainsAny(txt, {"abm notified", "upload picture"})
    THEN "Loading Dock Access (Lock & Unlock)"
    ELSE IF Contains(txt, "key service") \/ KeyWordRx(txt)
    THEN "Key Service (Lock & Unlock)"
    ELSE IF ContainsAny(txt, {"panel", "bypass", "trbl", "supv", "fire alarm",
                              "alarm test", "hold"})
    THEN "Fire Panel Bypass/Online"
    ELSE IF \/ Contains(txt, "transient") \/ Contains(txt, "trespass")
            \/ (Contains(txt, "removed") /\ Contains(txt, "person"))
    THEN "Transient Removal"
    ELSE IF Contains(txt, "work order") \/ Contains(txt, "building engines")
    THEN "Work Orders"
    ELSE IF \/ Contains(txt, "incident report") \/ IrNumberRx(txt)
            \/ ContainsAny(txt, {"police", "911", "injury", "assault", "theft", "robbery"})
    THEN "Incident Reports (IR) / Alarms"
    ELSE IF \/ Lower(category) \in {"janitorial", "seattle ambassadors"}
            \/ ContainsAny(txt, {"janitorial", "abm notified", "upload picture", "abm",
                                 "clean", "trash", "garbage", "spill", "vacuum", "mop",
                                 "sweep", "ambassador", "mid call", "mid dispatch",
                                 "seattle ambassadors"})
    THEN "Janitorial"
    ELSE "Unclassified"

\* " ".join([*labels, action, company, location, category]).lower()
ClassifyText(buffer, labels) ==
    Lower(Join(labels \o <<Get(buffer, "action"), Get(buffer, "company"),
                           Get(buffer, "location"), Get(buffer, "category")>>, " "))

classify(buffer, labels) ==
    LET explicit == IF "category" \in DOMAIN buffer
                    THEN ExplicitCategory(Lower(buffer["category"]), Get(buffer, "action"))
                    ELSE ""
    IN  IF explicit # "" THEN explicit
        ELSE Heuristic(ClassifyText(buffer, labels), Get(buffer, "category"))

(***************************************************************************)
(* Dates: the header timestamp, build_event_line's date, _extract_dt       *)
(***************************************************************************)
\* \d{1,2}/\d{1,2}/\d{4}\s+\d{1,2}:\d{2}\s*[AP]M under re.IGNORECASE
\* atoms: 1 mm, 3 dd, 5 yyyy, 6 blanks, 7..12 the time
DateTimePat ==
    <<Rep(DigitSet, 1, 2)>> \o Lit("/") \o <<Rep(DigitSet, 1, 2)>> \o Lit("/")
    \o <<Rep(DigitSet, 4, 4), Plus(SpaceSet), Rep(DigitSet, 1, 2)>> \o Lit(":")
    \o <<Rep(DigitSet, 2, 2), Star(SpaceSet), One({"A", "a", "P", "p"}), One({"M", "m"})>>

\* re.match(r"^\d{1,2}/\d{1,2}/\d{4}\s+\d{1,2}:\d{2}\s*[AP]M$", ln, re.IGNORECASE)
IsTimestampLine(ln) == ReFullMatch(ln, DateTimePat)

\* the reformatting build_event_line and _fmt_date_for_line share
Reformat(date, pos, lens) ==
    Pad2(ToInt(Span(date, pos, lens, 1, 1))) \o "/"
    \o Pad2(ToInt(Span(date, pos, lens, 3, 3))) \o "/"
    \o SubSeq(Span(date, pos, lens, 5, 5), 3, 4) \o " "
    \o Upper(Span(date, pos, lens, 7, 12))

ReformatAt(date, pos) == Reformat(date, pos, AtomLens(date, pos, DateTimePat))

ReformatFound(date, found) == IF found = {} THEN date ELSE ReformatAt(date, SetMin(found))

FormatDate(date) == ReformatFound(date, Found(date, DateTimePat))

_fmt_date_for_line(datestr) == FormatDate(datestr)

\* s from p on without the matches of the five-character pattern pat
RECURSIVE RemoveHits(_, _, _)
RemoveHitsAt(s, p, pat, hits) ==
    IF hits = {} THEN SubSeq(s, p, Len(s))
    ELSE SubSeq(s, p, SetMin(hits) - 1) \o RemoveHits(s, SetMin(hits) + 5, pat)

RemoveHits(s, p, pat) == RemoveHitsAt(s, p, pat, {q \in p..Len(s) : MatchesAt(s, q, pat)})

\* re.sub(r"\bClose\b", "", action)
RemoveCloseFrom(s, p) == RemoveHits(s, p, <<WB>> \o Lit("Close") \o <<WB>>)

\* the action in the past tense, without Close (lines 3346-3350)
PastAction(action0) ==
    IF action0 # "" THEN Strip(RemoveCloseFrom(to_past_tense(action0), 1)) ELSE ""

\* the company, unless the action names it (lines 3355-3356)
ForCompany(company0, action) ==
    IF company0 # "" /\ action # "" /\ Contains(Lower(action), Lower(company0))
    THEN "" ELSE company0

ActionPart(action, company) ==
    IF action # ""
    THEN <<action \o (IF company # "" THEN " for " \o company ELSE "")>>
    ELSE <<>>

ActionFor(action, company0) == ActionPart(action, ForCompany(company0, action))

Parenthesized(location) == IF location # "" THEN <<"(" \o location \o ")">> ELSE <<>>

build_event_line(buffer) ==
    StripChars(Join(Kept(FormatDate(Strip(Get(buffer, "date"))))
                    \o Kept(bold_officer(Get(buffer, "officer")))
                    \o ActionFor(PastAction(Strip(Get(buffer, "action"))),
                                 Strip(Get(buffer, "company")))
                    \o Parenthesized(Strip(Get(buffer, "location"))),
                    " " \o EnDash \o " "),
               {" ", EnDash})

\* the calendar check datetime() makes
IsLeap(y) == (y % 4 = 0 /\ y % 100 # 0) \/ y % 400 = 0
DaysInMonth(y, m) ==
    IF m = 2 THEN (IF IsLeap(y) THEN 29 ELSE 28)
    ELSE IF m \in {4, 6, 9, 11} THEN 30 ELSE 31

\* a sort key that orders datetimes as Python does: minutes, counted from
\* 1900 (%y yields the years 1969..2068)
DtKey(y, mo, d, h, mi) ==
    ((((y - 1900) * 12 + (mo - 1)) * 31 + (d - 1)) * 24 + h) * 60 + mi
\* datetime.max (year 9999) as a key: after every datetime %y can yield
DtMax == DtKey(2069, 1, 1, 0, 0)

\* ^(\d{2}/\d{2}/\d{2})\s+(\d{1,2}:\d{2}\s*[AP]M), case-sensitive
\* atoms: 1..5 the date, 6 blanks, 7 hour, 9 minutes, 10 blanks, 11 A or P
ExtractPat ==
    <<Rep(DigitSet, 2, 2)>> \o Lit("/") \o <<Rep(DigitSet, 2, 2)>> \o Lit("/")
    \o <<Rep(DigitSet, 2, 2), Plus(SpaceSet), Rep(DigitSet, 1, 2)>> \o Lit(":")
    \o <<Rep(DigitSet, 2, 2), Star(SpaceSet), One({"A", "P"})>> \o Lit("M")

\* the year %y stands for
Century(yy) == IF yy < 69 THEN 2000 + yy ELSE 1900 + yy

\* the key of a stamp with blanks many blanks before AM or PM, DtMax where
\* strptime raises ValueError
DtOf(mo, d, y, hh, mi, pm, blanks) ==
    IF /\ mo \in 1..12
       /\ d \in 1..DaysInMonth(y, mo)
       /\ hh \in 1..12
       /\ mi \in 0..59
       /\ blanks >= 1
    THEN DtKey(y, mo, d, (hh % 12) + (IF pm THEN 12 ELSE 0), mi)
    ELSE DtMax

DtAt(line, lens) ==
    DtOf(ToInt(Span(line, 1, lens, 1, 1)), ToInt(Span(line, 1, lens, 3, 3)),
         Century(ToInt(Span(line, 1, lens, 5, 5))), ToInt(Span(line, 1, lens, 7, 7)),
         ToInt(Span(line, 1, lens, 9, 9)), Span(line, 1, lens, 11, 11) = "P",
         Len(Span(line, 1, lens, 10, 10)))

\* datetime.strptime(f"{g1} {g2}", "%m/%d/%y %I:%M %p") as a key, DtMax
\* where there is no match or it raises ValueError
_extract_dt(line) ==
    IF ~ReMatch(line, ExtractPat) THEN DtMax
    ELSE DtAt(line, AtomLens(line, 1, ExtractPat))

IsBlank(s, i) == SubSeq(s, i, i) \in SpaceSet

\* re.split(r"(\s+)", loc): the runs of blanks and of non-blanks, in order
Runs(s) ==
    Pieces(s, {i \in 1..Len(s) : i = 1 \/ IsBlank(s, i) # IsBlank(s, i - 1)},
              {i \in 1..Len(s) : i = Len(s) \/ IsBlank(s, i) # IsBlank(s, i + 1)})

\* lines 3282-3293
FormatWord(word, i) ==
    IF Strip(word) = "" THEN word
    ELSE IF IsUpper(word) /\ Len(word) > 1 THEN word
    ELSE IF i = 1 \/ Lower(word) \notin {"and", "or", "of", "the", "to", "from", "at", "in"}
         THEN Capitalize(Lower(word))
         ELSE Lower(word)

FormatWords(words) == Join([i \in 1..Len(words) |-> FormatWord(words[i], i)], "")

format_location_name(loc) == FormatWords(Runs(Strip(loc)))

(***************************************************************************)
(* flush_event, Additional Information: the secondary scan over all lines. *)
(* Line indices count from 0 as in the code: Line(lines, j) is lines[j].   *)
(***************************************************************************)
Line(lines, j) == lines[j + 1]

Max2(a, b) == IF a >= b THEN a ELSE b
Min2(a, b) == IF a <= b THEN a ELSE b

WsStar == Star(SpaceSet)
WsPlus == Plus(SpaceSet)

\* \bOther\s*/?\s*Miscellaneous\b
OtherMiscPat ==
    <<WB>> \o LitI("Other") \o <<WsStar, Opt({"/"}), WsStar>> \o LitI("Miscellaneous") \o <<WB>>

\* REPORT\s*-\s*LOGBOOK|Generated\s+on
IsFooter(ln) ==
    \/ ReSearch(ln, LitI("REPORT") \o <<WsStar>> \o Lit("-") \o <<WsStar>> \o LitI("LOGBOOK"))
    \/ ReSearch(ln, LitI("Generated") \o <<WsPlus>> \o LitI("on"))

\* ^\d{1,2}/\d{1,2}/\d{2,4}\s+\d{1,2}:\d{2}
ShortStampPat ==
    <<Rep(DigitSet, 1, 2)>> \o Lit("/") \o <<Rep(DigitSet, 1, 2)>> \o Lit("/")
    \o <<Rep(DigitSet, 2, 4), WsPlus, Rep(DigitSet, 1, 2)>> \o Lit(":") \o <<Rep(DigitSet, 2, 2)>>

\* Start\s*(?:Date|Time)\s*:
StartLabelPat ==
    LitI("Start") \o <<WsStar, WordsI(<<"Date", "Time">>), WsStar>> \o Lit(":")

\* END\s*OF\s*REPORT|DAILY\s*ACTIVITY|^Page\s+\d+
IsReportEdge(ln) ==
    \/ ReSearch(ln, LitI("END") \o <<WsStar>> \o LitI("OF") \o <<WsStar>> \o LitI("REPORT"))
    \/ ReSearch(ln, LitI("DAILY") \o <<WsStar>> \o LitI("ACTIVITY"))
    \/ ReMatch(ln, LitI("Page") \o <<WsPlus, Plus(DigitSet)>>)

\* the condition that opens a block at line ln (lines 1714-1724)
AiTrigger(ln, ai) ==
    \/ ReSearch(ln, OtherMiscPat)
    \/ /\ ai # <<>>
       /\ ~IsReportEdge(ln)
       /\ (ReMatch(ln, ShortStampPat) \/ ReMatch(ln, StartLabelPat))

\* ([A-Z][A-Za-z]+)\s+([A-Z][A-Za-z]+)(?:\s*\((?:Officers?|Site\s*Supervisors?)\))?$
\* cs1: the class [A-Z] (every letter under re.IGNORECASE); ws: the blanks
\* between Site and Supervisors; roles: the role words accepted
NamePat(cs1, roles) ==
    <<One(cs1), Plus(AlphaSet), WsPlus, One(cs1), Plus(AlphaSet),
      Maybe(<<WsStar>> \o Lit("(") \o <<Alt(roles)>> \o Lit(")")), EOS>>

OfficersRole(ci) ==
    (IF ci THEN LitI("Officer") ELSE Lit("Officer"))
    \o <<Opt(IF ci THEN {"s", "S"} ELSE {"s"})>>
SupervisorsRole(ws) ==
    LitI("Site") \o <<ws>> \o LitI("Supervisor") \o <<Opt({"s", "S"})>>

\* the officer found above line i (lines 1738-1763)
IsUpNoiseLow(l) ==
    \/ ContainsAny(l, {"geolocation", "comment", "report", "multi-line", "tour",
                       "actually", "needed"})
    \/ ReSearch(l, Lit("start") \o <<WsStar>> \o Lit("date"))
    \/ ReSearch(l, Lit("end") \o <<WsStar>> \o Lit("date"))

IsUpNoise(t) == IsUpNoiseLow(Lower(t))

UpNamePat == NamePat(AlphaSet, <<OfficersRole(TRUE), SupervisorsRole(WsStar)>>)

\* LAST First becomes First Last (lines 1755-1761)
OrderNames(first_part, second_part) ==
    IF IsUpper(first_part)
       /\ \/ IsUpper(Char(second_part, 1))
             /\ IsLower(SubSeq(second_part, 2, Len(second_part)))
          \/ IsUpper(second_part)
    THEN Capitalize(second_part) \o " " \o Capitalize(first_part)
    ELSE Capitalize(first_part) \o " " \o Capitalize(second_part)

UpName(t, lens) == OrderNames(Span(t, 1, lens, 1, 2), Span(t, 1, lens, 4, 5))

RECURSIVE AiOfficerUp(_, _, _)
AiOfficerUpAt(lines, j, stop, t) ==
    IF t = "" \/ IsUpNoise(t) \/ ~ReMatch(t, UpNamePat)
    THEN AiOfficerUp(lines, j - 1, stop)
    ELSE UpName(t, AtomLens(t, 1, UpNamePat))

AiOfficerUp(lines, j, stop) ==
    IF j <= stop THEN "" ELSE AiOfficerUpAt(lines, j, stop, Strip(Line(lines, j)))

\* the officer found below line i (lines 1767-1778)
DownNamePat == NamePat(UpperSet, <<OfficersRole(FALSE)>>)

DownName(t, lens) ==
    Capitalize(Span(t, 1, lens, 1, 2)) \o " " \o Capitalize(Span(t, 1, lens, 4, 5))

RECURSIVE AiOfficerDown(_, _, _)
AiOfficerDownAt(lines, j, stop, t) ==
    IF \/ t = ""
       \/ ReMatch(t, <<WsStar>> \o LitI("NEW") \o <<WsPlus>> \o LitI("ACTIVITY"))
       \/ ReMatch(t, <<WsStar>> \o LitI("COMMENT"))
       \/ ~ReMatch(t, DownNamePat)
    THEN AiOfficerDown(lines, j + 1, stop)
    ELSE DownName(t, AtomLens(t, 1, DownNamePat))

AiOfficerDown(lines, j, stop) ==
    IF j >= stop THEN "" ELSE AiOfficerDownAt(lines, j, stop, Strip(Line(lines, j)))

OrBelow(up, lines, i) ==
    IF up # "" THEN up ELSE AiOfficerDown(lines, i + 1, Min2(Len(lines), i + 10))

AiOfficer(lines, i) == OrBelow(AiOfficerUp(lines, i - 1, Max2(0, i - 8)), lines, i)

\* ^(End\s*of\s*Report|Daily\s*Activity|Summary\s*of|Work\s*Orders|Patrol\s*Check|Log\s*Summary)
IsSectionEnd(t) ==
    \E w \in {<<"End", "of", "Report">>, <<"Daily", "Activity", "">>, <<"Summary", "of", "">>,
              <<"Work", "Orders", "">>, <<"Patrol", "Check", "">>, <<"Log", "Summary", "">>} :
        ReMatch(t, LitI(w[1]) \o <<WsStar>> \o LitI(w[2])
                   \o (IF w[3] = "" THEN <<>> ELSE <<WsStar>> \o LitI(w[3])))

\* where a block that began at line i ends at line k > i (lines 1799-1820)
IsBlockBreak(t, k, i) ==
    \/ ReMatch(t, StartLabelPat \o <<WsStar>> \o ShortStampPat)
    \/ ReMatch(t, ShortStampPat)
    \/ ReMatch(t, <<WsStar>> \o LitI("NEW") \o <<WsPlus>> \o LitI("ACTIVITY") \o <<WB>>)
    \/ /\ ReMatch(t, <<WsStar>> \o LitI("Other") \o <<WsStar, Opt({"/"}), WsStar>>
                        \o LitI("Miscellaneous") \o <<WB>>)
       /\ (k - i) > 3
       /\ ~IsFooter(t)

\* the block gathered from line i on and the index it ends at (lines 1784-1823)
RECURSIVE AiBlock(_, _, _, _)
AiBlockAt(lines, i, k, acc, line_k) ==
    IF IsSectionEnd(line_k) THEN [block_lines |-> acc, next_idx |-> k]
    ELSE IF IsFooter(line_k) THEN AiBlock(lines, i, k + 1, acc)
    ELSE IF k > i /\ IsBlockBreak(line_k, k, i)
         THEN [block_lines |-> acc, next_idx |-> k]
    ELSE AiBlock(lines, i, k + 1, Append(acc, line_k))

AiBlock(lines, i, k, acc) ==
    IF k >= Len(lines) THEN [block_lines |-> acc, next_idx |-> Len(lines)]
    ELSE AiBlockAt(lines, i, k, acc, Strip(Line(lines, k)))

\* ([0-9/]+\s+\d{1,2}:\d{2}\s*(?:AM|PM)?), atoms 1..7; ci: under re.IGNORECASE
StampGroupPat(ci) ==
    <<Plus(DigitSet \cup {"/"}), WsPlus, Rep(DigitSet, 1, 2)>> \o Lit(":")
    \o <<Rep(DigitSet, 2, 2), WsStar,
         Alt(IF ci THEN <<LitI("AM"), LitI("PM"), <<>>>> ELSE <<Lit("AM"), Lit("PM"), <<>>>>)>>

\* Start\s*(?:Date|Time)\s*:\s*([0-9/]+\s+\d{1,2}:\d{2}\s*(?:AM|PM)?), the
\* group being the atoms 11..17
StartStampPat == StartLabelPat \o <<WsStar>> \o StampGroupPat(TRUE)

\* the stripped group of the first match of StartStampPat in text, "" if none
StartStampIn(text) == Strip(SearchGroupOr(text, StartStampPat, 11, 17, ""))

\* the Start Date of the line before the first Comments line that has one
\* (lines 1827-1837)
RECURSIVE AiStartBeforeComments(_, _)
AiStartBeforeComments(block_lines, idx) ==
    IF idx > Len(block_lines) THEN ""
    ELSE IF idx > 1 /\ Contains(Lower(block_lines[idx]), "comment")
            /\ ReSearch(block_lines[idx - 1], StartStampPat)
         THEN Strip(SearchGroup(block_lines[idx - 1], StartStampPat, 11, 17))
         ELSE AiStartBeforeComments(block_lines, idx + 1)

\* the nearest time stamp above line i (lines 1850-1855)
RECURSIVE AiStampAbove(_, _, _)
AiStampAbove(lines, j, stop) ==
    IF j <= stop THEN ""
    ELSE IF ReSearch(Line(lines, j), StampGroupPat(FALSE))
         THEN Strip(SearchGroup(Line(lines, j), StampGroupPat(FALSE), 1, 7))
         ELSE AiStampAbove(lines, j - 1, stop)

\* the first of before and inside that is not empty, else the stamp above
FirstStamp(before, inside, lines, i) ==
    IF before # "" THEN before
    ELSE IF inside # "" THEN inside
    ELSE AiStampAbove(lines, i - 1, Max2(0, i - 6))

AiStartDate(lines, i, block_lines) ==
    FirstStamp(AiStartBeforeComments(block_lines, 1),
               StartStampIn(Join(block_lines, "\n")), lines, i)

\* Multi-line\s*text\s*field\s*:
MultiLabelPat ==
    LitI("Multi-line") \o <<WsStar>> \o LitI("text") \o <<WsStar>> \o LitI("field")
    \o <<WsStar>> \o Lit(":")

\* ^\s*(NEW\s+ACTIVITY|TOUR\s|Other\s*/?\s*Miscellaneous)\b
CommentStopPat ==
    <<WsStar,
      Alt(<<LitI("NEW") \o <<WsPlus>> \o LitI("ACTIVITY"),
            LitI("TOUR") \o <<One(SpaceSet)>>,
            LitI("Other") \o <<WsStar, Opt({"/"}), WsStar>> \o LitI("Miscellaneous")>>),
      WB>>

\* ^Page\s+\d+ and ^\d{1,2}/\d{1,2}/\d{4}\s+\d{1,2}:\d{2}
IsCommentNoise(line_k) ==
    \/ IsFooter(line_k)
    \/ ReMatch(line_k, LitI("Page") \o <<WsPlus, Plus(DigitSet)>>)
    \/ ReMatch(line_k,
           <<Rep(DigitSet, 1, 2)>> \o Lit("/") \o <<Rep(DigitSet, 1, 2)>>
           \o Lit("/") \o <<Rep(DigitSet, 4, 4), WsPlus, Rep(DigitSet, 1, 2)>>
           \o Lit(":") \o <<Rep(DigitSet, 2, 2)>>)

\* ^-?\s*Multi-line\s*text\s*field\s*:\s*
CommentLabelPat == <<Opt({"-"}), WsStar>> \o MultiLabelPat \o <<WsStar>>

\* line_k from the end of the label on, ends being where the label can end
AfterLabel(line_k, ends) ==
    Strip(IF ends = {} THEN line_k ELSE SubSeq(line_k, SetMax(ends), Len(line_k)))

\* the lines of the comment, from block line k on (lines 1870-1884)
RECURSIVE AiCommentLines(_, _)
AiCommentLinesAt(block_lines, k, line_k) ==
    IF ReMatch(line_k, CommentStopPat) THEN <<>>
    ELSE IF IsCommentNoise(line_k) THEN AiCommentLines(block_lines, k + 1)
    ELSE Kept(AfterLabel(line_k, MatchEnds(line_k, 1, CommentLabelPat)))
         \o AiCommentLines(block_lines, k + 1)

AiCommentLines(block_lines, k) ==
    IF k > Len(block_lines) THEN <<>>
    ELSE AiCommentLinesAt(block_lines, k, Strip(block_lines[k]))

\* re.sub(r"\b[Cc]lose\b", "", s)
RemoveAnyClose(s, p) == RemoveHits(s, p, <<WB, One({"C", "c"})>> \o Lit("lose") \o <<WB>>)

\* re.sub(pat, "", s) for a pattern that matches no empty text
RECURSIVE RemoveAll(_, _)
RemoveAllAt(s, pat, found) ==
    IF found = {} THEN s
    ELSE SubSeq(s, 1, SetMin(found) - 1)
         \o RemoveAll(SubSeq(s, MatchEnd(s, SetMin(found), pat), Len(s)), pat)

RemoveAll(s, pat) == RemoveAllAt(s, pat, Found(s, pat))

NotEmpty(s) == s # ""

\* re.sub(pat, rep, s) from position p of s on
RECURSIVE SubFrom(_, _, _, _)
SubAt(s, p, pat, rep, hits) ==
    IF hits = {} THEN SubSeq(s, p, Len(s))
    ELSE SubSeq(s, p, SetMin(hits) - 1) \o rep
         \o SubFrom(s, MatchEnd(s, SetMin(hits), pat), pat, rep)

SubFrom(s, p, pat, rep) == SubAt(s, p, pat, rep, {q \in p..Len(s) : MatchesAt(s, q, pat)})

Sub(s, pat, rep) == SubFrom(s, 1, pat, rep)

\* the class . of the characters of s
AnyChar(s) == CharsOf(s) \ {"\n"}

\* re.sub(r"\s*\(.*?\)", "", s)
RemoveParens(s) ==
    RemoveAll(s, <<WsStar>> \o Lit("(") \o <<LazyStar(AnyChar(s))>> \o Lit(")"))

\* re.sub(r"\s+", " ", s)
SquashRuns(runs) ==
    Join([j \in 1..Len(runs) |->
              IF Char(runs[j], 1) \in SpaceSet THEN " " ELSE runs[j]], "")

SquashBlanks(s) == SquashRuns(Runs(s))

\* the first Multi-line text field line of the block on (lines 1862-1884)
CommentFrom(block_lines, starts) ==
    IF starts = {} THEN <<>> ELSE AiCommentLines(block_lines, SetMin(starts))

\* a full stop at the end (lines 1892-1893)
WithStop(c3) == IF c3 # "" /\ ~EndsWith(c3, ".") THEN c3 \o "." ELSE c3

\* the cleaning of the joined comment (lines 1886-1891)
CleanComment(c0) ==
    Strip(SquashBlanks(Strip(RemoveParens(
        RStripChars(Strip(RemoveAnyClose(c0, 1)), {"."})))))

\* the comment of a block (lines 1859-1893)
AiComment(block_lines) ==
    WithStop(CleanComment(Strip(Join(
        CommentFrom(block_lines,
                    {idx \in 1..Len(block_lines) : ReSearch(block_lines[idx], MultiLabelPat)}),
        " "))))

Pronouns == {"i", "me", "my", "we", "they", "he", "she", "you"}

\* p.capitalize() unless p is made of capitals and digits only
CapitalizeParts(parts) ==
    Join([j \in 1..Len(parts) |->
              IF AllIn(parts[j], UpperSet \cup DigitSet) THEN parts[j]
              ELSE Capitalize(parts[j])], " ")

CapitalizeWords(location) == CapitalizeParts(Split(location))

\* ([A-Za-z0-9\s\-]+?)(?:[.,;]|$)
PlaceTail ==
    <<LazyPlus(AlphaSet \cup DigitSet \cup SpaceSet \cup {"-"}),
      Alt(<<<<One({".", ",", ";"})>>, <<EOS>>>>)>>

\* atoms: 1 \b, 2 the verb, 3 blanks, 4 \w+, 5 (\s+\w+)?, 6 blanks,
\* 7..8 to, 9 blanks, 10 the place
MovePat ==
    <<WB, WordsI(<<"escorted", "accompanied", "guided", "took", "brought",
                   "delivered", "walked", "assisted">>),
      WsPlus, Plus(WordSet), Maybe(<<WsPlus, Plus(WordSet)>>), WsPlus>>
    \o Lit("to") \o <<WsPlus>> \o PlaceTail

\* atoms: 1 \b, 2 the preposition, 3 blanks, 4 the place
PrepPat ==
    <<WB, WordsI(<<"at", "in", "on", "inside", "near", "around", "to">>), WsPlus>>
    \o PlaceTail

\* atoms: 1 on/to, 2 blanks, 3 (the\s+)?, 4.. the floor
FloorPat ==
    <<Alt(<<Lit("on"), Lit("to")>>), WsPlus, Maybe(Lit("the") \o <<WsPlus>>),
      Star(AlphaSet \cup DigitSet \cup SpaceSet)>>
    \o Lit("floor") \o <<WsStar, Star(DigitSet)>>

TrimPlace(c) == StripChars(c, {" ", ".", ",", "-"})

\* the destination of a movement, unless it is no place (lines 1915-1930)
MovePlace(cand1) ==
    IF \/ Len(cand1) = 1
       \/ cand1 \in Pronouns
       \/ cand1 \in {"escort", "escorte", "assist", "help", "report", "inform",
                     "notify", "contact"}
       \/ \E x \in {"kone", "davis", "fedex", "usps", "abm", "cedar", "brunson",
                    "engineer", "technician"} : StartsWith(cand1, x)
    THEN "" ELSE cand1

\* the place after a preposition (lines 1933-1941)
PrepPlace(cand2) == IF cand2 \in Pronouns THEN "" ELSE cand2

OrPrepPlace(loc1, text) ==
    IF loc1 # "" THEN loc1
    ELSE PrepPlace(TrimPlace(SearchGroupOr(text, PrepPat, 4, 4, "")))

\* the floor (lines 1944-1947)
OrFloor(loc2, text) ==
    IF loc2 = "" /\ Contains(text, "floor") /\ ReSearch(text, FloorPat)
    THEN Strip(SearchGroup(text, FloorPat, 4, Len(FloorPat)))
    ELSE loc2

\* lines 1950-1958
TidyPlace(loc3) ==
    IF loc3 = "" \/ Len(loc3) = 1 \/ Lower(loc3) \in Pronouns THEN ""
    ELSE CapitalizeWords(Strip(SquashBlanks(loc3)))

replacements ==
    ("sb" :> "SB") @@ ("nb" :> "NB") @@ ("eb" :> "EB") @@ ("wb" :> "WB") @@
    ("p1" :> "P1") @@ ("l1" :> "L1") @@ ("subbasement" :> "Subbasement") @@
    ("loading dock" :> "Loading Dock") @@ ("rooftop" :> "Rooftop")

Replaced(loc5, low) == IF low \in DOMAIN replacements THEN replacements[low] ELSE loc5

Replacement(loc5) == Replaced(loc5, Lower(loc5))

\* lines 1961-1982
PlaceName(loc4) ==
    IF loc4 = "" THEN "N/A"
    ELSE CapitalizeWords(Replacement(Strip(SquashBlanks(loc4))))

PlaceIn(text) ==
    PlaceName(TidyPlace(OrFloor(OrPrepPlace(
        MovePlace(TrimPlace(SearchGroupOr(text, MovePat, 10, 10, ""))), text), text)))

\* the location inferred from the comment (lines 1901-1982)
AiLocation(comment) == PlaceIn(Lower(comment))

\* the entry of a block (lines 1985-1996)
AiEntry(date_fmt, officer, comment) ==
    date_fmt \o " " \o EnDash \o " " \o bold_officer(Strip(officer))
    \o " has reported " \o comment
    \o " (<font color='red'>Location: <b>" \o AiLocation(comment)
    \o "</b></font>)"

\* ai with evt, unless it holds it
AddOnce(ai, evt) == IF \E j \in 1..Len(ai) : ai[j] = evt THEN ai ELSE Append(ai, evt)

\* a block with a comment and a date (lines 1985-2011)
AiAppend(i, ai, next_idx, evt) ==
    [i |-> IF next_idx > i THEN next_idx ELSE i + 1, ai |-> AddOnce(ai, evt)]

AiDated(lines, i, ai, next_idx, comment, date_fmt) ==
    IF date_fmt = "" THEN [i |-> i + 1, ai |-> ai]
    ELSE AiAppend(i, ai, next_idx, AiEntry(date_fmt, AiOfficer(lines, i), comment))

AiCommented(lines, i, ai, blk, comment) ==
    IF comment = "" THEN [i |-> blk.next_idx, ai |-> ai]
    ELSE AiDated(lines, i, ai, blk.next_idx, comment,
                 _fmt_date_for_line(AiStartDate(lines, i, blk.block_lines)))

AiBlockIter(lines, i, ai, blk) ==
    AiCommented(lines, i, ai, blk, AiComment(blk.block_lines))

\* one iteration of the while loop at line i, ai being
\* parsed["Additional Information"]: the next index, and the list
\* (lines 1707-2013)
AiIter(lines, i, ai) ==
    IF ~AiTrigger(Line(lines, i), ai) \/ IsFooter(Line(lines, i))
    THEN [i |-> i + 1, ai |-> ai]
    ELSE AiBlockIter(lines, i, ai, AiBlock(lines, i, i, <<>>))

(***************************************************************************)
(* The report under construction: the dict parsed, as the sequence of its  *)
(* items in insertion order.                                               *)
(***************************************************************************)
NewParsed == [j \in 1..Len(SECTIONS) |-> [name |-> SECTIONS[j], items |-> <<>>]]

HasKey(parsed, sec) == \E j \in 1..Len(parsed) : parsed[j].name = sec
\* parsed[sec]
Items(parsed, sec) == parsed[CHOOSE j \in 1..Len(parsed) : parsed[j].name = sec].items
\* parsed[sec] = items
SetItems(parsed, sec, items) ==
    [j \in 1..Len(parsed) |->
        IF parsed[j].name = sec THEN [name |-> sec, items |-> items] ELSE parsed[j]]

(***************************************************************************)
(* flush_event.  st is the record of parse_events' locals:                 *)
(*   parsed, buffer, labels, last_field ("" for None), transient_count,    *)
(*   transient_tag_seen, in_tour, waiting_officer_nested, in_spd,          *)
(*   spd_buffer, in_ambassador, ambassador_buffer, in_unsecure             *)
(* and of where control is:                                                *)
(*   raised     the exception that ended parse_events, "" if none          *)
(*   done       the loop body hit continue                                 *)
(*   call       control is at a call of flush_event                        *)
(*   scan       flush_event starts its Additional Information scan         *)
(*   at, carry  the handler a flush was called from, and its local carry   *)
(*   outside    control reached a branch this model does not describe      *)
(* with the history the properties speak of:                               *)
(*   sec        what classify() returned in the last flush, "" before it   *)
(*   log        the calls of flush_event so far, oldest first              *)
(*   classified how many flushes classify() sent to Transient Removal      *)
(***************************************************************************)
Truthy(b, k) == Get(b, k) # ""

\* not buffer alone, without the test of the four fields
DiscardsOnlyEmpty(buffer) == buffer = EmptyBuf

\* the buffers flush_event discards (lines 453-458)
Discards(buffer) ==
    \/ buffer = EmptyBuf
    \/ /\ ~Truthy(buffer, "action")
       /\ ~Truthy(buffer, "incident_description")
       /\ ~Truthy(buffer, "incident_comments")
       /\ ~Truthy(buffer, "category")

\* the sections whose branch of flush_event is described below
FlushSections ==
    {"Loading Dock Access (Lock & Unlock)", "AES Phone Calls", "Janitorial",
     "Additional Information", "SPD Presence/Emergency Response on Site",
     "Tenant Issues", "Retail Issues", "Transient Removal", "Unclassified",
     "Elevator Entrapment Incidents", "Work Orders"}

\* Loading Dock: the narrative put in buffer["action"] (lines 1430-1454)
DockNarrative(low, action, company) ==
    IF Contains(low, "unlock") \/ Contains(low, "open")
    THEN "was dispatched to the loading dock in response to delivery needs and unlocked the gate for "
         \o company \o ", granting authorized access and facilitating scheduled operations."
    ELSE IF Contains(low, "lock") \/ Contains(low, "secure") \/ Contains(low, "close")
    THEN "was dispatched to the loading dock and secured the gate after "
         \o company \o "'s delivery, maintaining site safety and compliance."
    ELSE "was dispatched to the loading dock and " \o action \o " for " \o company

DockPast(buffer, action, company) ==
    Put(buffer, "action", DockNarrative(Lower(action), action, company))

DockAction(buffer) ==
    IF Strip(Get(buffer, "action")) = "" THEN buffer
    ELSE DockPast(buffer, to_past_tense(Strip(Get(buffer, "action"))),
                  Strip(Get(buffer, "company")))

\* Janitorial: the narrative (lines 1644-1688); the Seattle Ambassadors text
\* of lines 1649-1653 is always overwritten by this chain, whose last branch
\* is unconditional
JanitorialText(low, company) ==
    IF ContainsAny(low, {"spill", "liquid", "water leak", "slip", "hazard"})
    THEN "coordinated janitorial response and notified " \o company
         \o " to clean a reported spill/hazard to ensure safety and prevent accidents"
    ELSE IF ContainsAny(low, {"trash", "garbage", "overflow", "waste", "dumpster"})
    THEN "reported janitorial concern of trash overflow and dispatched " \o company
         \o " to clear the waste and maintain cleanliness"
    ELSE IF ContainsAny(low, {"restroom", "toilet", "bathroom", "urinal", "supply",
                              "paper towel", "soap"})
    THEN "notified " \o company
         \o " regarding restroom cleaning and supply replenishment to maintain sanitary conditions"
    ELSE IF ContainsAny(low, {"vacuum", "sweep", "mop", "sanitize", "disinfect"})
    THEN "assigned " \o company
         \o " to perform floor care and sanitization tasks, including vacuuming, mopping, or sweeping as required"
    ELSE IF ContainsAny(low, {"odor", "smell", "stain", "debris", "dirty",
                              "cleaning required"})
    THEN "requested " \o company
         \o " to address reported odor, stains, or debris to restore a clean and professional environment"
    ELSE "coordinated janitorial services through " \o company
         \o " to address reported cleaning needs on site"

\* Janitorial: the location (lines 1690-1695)
JanitorialLocation(b1) ==
    IF Truthy(b1, "location")
    THEN Put(b1, "location", format_location_name(b1["location"]))
    ELSE b1

\* buffer.get(k) or other, stripped
StripOr(buffer, k, other) == Strip(IF Truthy(buffer, k) THEN buffer[k] ELSE other)

JanitorialAction(buffer) ==
    JanitorialLocation(
        Put(buffer, "action",
            JanitorialText(Lower(Strip(Get(buffer, "action"))),
                           StripOr(buffer, "company", "ABM Janitorial"))))

\* \s*[AP]M under re.IGNORECASE
AmPmPat == <<WsStar, One({"A", "a", "P", "p"}), One({"M", "m"})>>

\* (\d{1,2}:\d{2}\s*[AP]M|\d{3,4}\s*[AP]M|\d{1,2}\s*[AP]M) under re.IGNORECASE
HoldTimePat ==
    <<Alt(<< <<Rep(DigitSet, 1, 2)>> \o Lit(":") \o <<Rep(DigitSet, 2, 2)>> \o AmPmPat,
             <<Rep(DigitSet, 3, 4)>> \o AmPmPat,
             <<Rep(DigitSet, 1, 2)>> \o AmPmPat >>)>>

\* the characters of s at the positions keep
Chosen(s, keep) == Join([k \in 1..Cardinality(keep) |-> Char(s, Nth(keep, k))], "")

\* s.replace(" ", "")
Unblank(s) == Chosen(s, {i \in 1..Len(s) : Char(s, i) # " "})

\* HHMM as HH:MM
Colon(d4) == SubSeq(d4, 1, 2) \o ":" \o SubSeq(d4, 3, 4)

\* the time as HH:MM AM (lines 1598-1609)
Clock(digits, ampm, raw_time) ==
    IF AllIn(digits, DigitSet) /\ Len(digits) \in {3, 4}
    THEN Colon(IF Len(digits) = 3 THEN "0" \o digits ELSE digits) \o " " \o ampm
    ELSE IF AllIn(digits, DigitSet) /\ Len(digits) \in {1, 2}
    THEN (IF Len(digits) = 1 THEN "0" \o digits ELSE digits) \o ":00 " \o ampm
    ELSE raw_time

HoldClock(raw_time) ==
    IF raw_time = "" THEN ""
    ELSE Clock(SubSeq(raw_time, 1, Len(raw_time) - 2),
               SubSeq(raw_time, Len(raw_time) - 1, Len(raw_time)), raw_time)

\* the hold time found in the action, "" if none (lines 1590-1609)
HoldUntil(action) == HoldClock(Unblank(Upper(SearchGroupOr(action, HoldTimePat, 1, 1, ""))))

\* lines 1576-1587
HoldType(lower) ==
    IF Contains(lower, "full") THEN "full hold"
    ELSE IF Contains(lower, "supervisory") /\ Contains(lower, "trouble")
         THEN "supervisory and trouble hold"
    ELSE IF Contains(lower, "supervisory") THEN "supervisory hold"
    ELSE IF Contains(lower, "trouble") THEN "trouble hold"
    ELSE IF ContainsAny(lower, {"hold", "extend", "test"}) THEN "supervisory hold"
    ELSE "system hold"

Until(hold_until) == IF hold_until # "" THEN " until " \o hold_until ELSE ""

WithVendor(company) ==
    " in coordination with " \o (IF company # "" THEN company ELSE "the vendor") \o " "

\* the three narratives (lines 1612-1635): what was done, and the operator in
\* bold unless the action names no hold, bypass, test or extension
AesVerb(lower) ==
    IF Contains(lower, "extend")
    THEN "called the AES Alarm Monitoring and extended the "
    ELSE "called the AES Alarm Monitoring and placed the system on "

AesOperator(lower, operator_name, operator_number) ==
    IF Contains(lower, "extend") \/ ContainsAny(lower, {"hold", "bypass", "test"})
    THEN "<font color='green'>(Operator Name: <b>" \o operator_name
         \o "</b>, Operator Number: <b>" \o operator_number \o "</b>)</font>"
    ELSE "<font color='green'>(Operator Name: " \o operator_name
         \o ", Operator Number: " \o operator_number \o ")</font>"

AesNarrative(lower, action, company, operator_name, operator_number) ==
    AesVerb(lower) \o HoldType(lower) \o Until(HoldUntil(action)) \o WithVendor(company)
    \o AesOperator(lower, operator_name, operator_number)

\* AES Phone Calls: the narrative put in buffer["action"] (lines 1564-1635)
AesAction(buffer) ==
    Put(buffer, "action",
        AesNarrative(Lower(Strip(Get(buffer, "action"))), Strip(Get(buffer, "action")),
                     Strip(Get(buffer, "company")),
                     StripOr(buffer, "operator_name", "N/A"),
                     StripOr(buffer, "operator_number", "N/A")))

(***************************************************************************)
(* flush_event, Elevator Entrapment Incidents (lines 714-920)              *)
(***************************************************************************)
\* re.sub(r"(\d{4})", lambda m: m.group(1)[-2:], s) from position p on
RECURSIVE ShortYearsFrom(_, _)
ShortYearsAt(s, p, hits) ==
    IF hits = {} THEN SubSeq(s, p, Len(s))
    ELSE SubSeq(s, p, SetMin(hits) - 1) \o SubSeq(s, SetMin(hits) + 2, SetMin(hits) + 3)
         \o ShortYearsFrom(s, SetMin(hits) + 4)

ShortYearsFrom(s, p) ==
    ShortYearsAt(s, p, {q \in p..Len(s) : MatchesAt(s, q, <<Rep(DigitSet, 4, 4)>>)})

\* \s*([APap][Mm])
MeridiemPat == <<WsStar, One({"A", "a", "P", "p"}), One({"M", "m"})>>

\* re.sub(r"\s*([APap][Mm])", lambda m: " " + m.group(1).upper(), s) from p on
RECURSIVE MeridiemFrom(_, _)
MeridiemAt(s, p, hits) ==
    IF hits = {} THEN SubSeq(s, p, Len(s))
    ELSE SubSeq(s, p, SetMin(hits) - 1) \o " "
         \o Upper(SubSeq(s, MatchEnd(s, SetMin(hits), MeridiemPat) - 2,
                         MatchEnd(s, SetMin(hits), MeridiemPat) - 1))
         \o MeridiemFrom(s, MatchEnd(s, SetMin(hits), MeridiemPat))

MeridiemFrom(s, p) == MeridiemAt(s, p, {q \in p..Len(s) : MatchesAt(s, q, MeridiemPat)})

\* the Start Date with a short year and " AM" or " PM" (lines 721-724)
ShortStamp(start_dt) == MeridiemFrom(ShortYearsFrom(start_dt, 1), 1)

\* buffer["date"] from the Start Date, or as it is (lines 720-728 and
\* 928-936); True is kept as the text "True"
ForceStartDate(b) ==
    IF Truthy(b, "start_date")
    THEN Put(Put(b, "date", ShortStamp(Strip(b["start_date"]))), "timestamp_locked", "True")
    ELSE Put(b, "date", Get(b, "date"))

\* the two pops before it (lines 716-717)
ElevatorDate(buffer) == ForceStartDate(Pop(Pop(buffer, "start_date"), "date"))

\* \b(?:at|in|on|inside|near|around)\s+([A-Za-z0-9\-\s]+?)(?:[.,;]|$), the
\* place being atom 4
NearPat == <<WB, WordsI(<<"at", "in", "on", "inside", "near", "around">>), WsPlus>> \o PlaceTail

\* \b([A-Z]{1,3}\d?|L\d|P\d|Dock|Garage|Lobby|Roof|Basement)\b under
\* re.IGNORECASE, the code being atom 2
CodePat ==
    <<WB,
      Alt(<<<<Rep(AlphaSet, 1, 3), Opt(DigitSet)>>,
            LitI("L") \o <<One(DigitSet)>>, LitI("P") \o <<One(DigitSet)>>,
            LitI("Dock"), LitI("Garage"), LitI("Lobby"), LitI("Roof"), LitI("Basement")>>),
      WB>>

\* on\s+the\s+([A-Za-z0-9\s]+?floor), the floor being the atoms 8..13
OnTheFloorPat ==
    Lit("on") \o <<WsPlus>> \o Lit("the")
    \o <<WsPlus, LazyPlus(AlphaSet \cup DigitSet \cup SpaceSet)>> \o Lit("floor")

\* str.title()
Title(s) ==
    Join([j \in 1..Len(s) |->
              IF j > 1 /\ Char(s, j - 1) \in AlphaSet THEN LowerChar(Char(s, j))
              ELSE UpperChar(Char(s, j))], "")

\* the place a text names (lines 740-756 and 998-1014); code_text is the
\* text the short code is looked for in
OrCode(loc1, code_text) ==
    IF loc1 # "" THEN loc1 ELSE Strip(SearchGroupOr(code_text, CodePat, 2, 2, ""))

OrOnTheFloor(loc2, text) ==
    IF loc2 = "" /\ Contains(text, "floor")
    THEN Strip(SearchGroupOr(text, OnTheFloorPat, 8, 13, ""))
    ELSE loc2

\* the part before the first comma (lines 762-763)
FirstOfList(loc3) ==
    IF Contains(loc3, ",") THEN Strip(SubSeq(loc3, 1, Find(loc3, ",") - 1)) ELSE loc3

\* lines 766-771 and 1017-1022
ShapePlace(loc5) ==
    IF ReFullMatch(loc5, <<Rep(UpperSet, 1, 3), Opt(DigitSet)>>) THEN Upper(loc5)
    ELSE Title(loc5)

TidyCase(loc4) == IF loc4 = "" THEN "" ELSE ShapePlace(Strip(SquashBlanks(loc4)))

\* the location inferred from the narrative (lines 738-771)
ElevatorInferred(source_text) ==
    TidyCase(FirstOfList(OrOnTheFloor(
        OrCode(TrimPlace(SearchGroupOr(source_text, NearPat, 4, 4, "")), source_text),
        source_text)))

\* desc or action
Either(desc, action) == IF desc # "" THEN desc ELSE action

ElevatorLocation(location, desc, action) ==
    IF location = "" /\ Either(desc, action) # ""
    THEN ElevatorInferred(Lower(Either(desc, action)))
    ELSE location

\* \b(long\s*)?description\s*of\s*incident\s*:? under re.IGNORECASE
DescriptionLabelPat ==
    <<WB, Maybe(<<Phrase("long"), WsStar>>), Phrase("description"), WsStar, Phrase("of"),
      WsStar, Phrase("incident"), WsStar, Opt({":"})>>

\* -\s*long description of incident.* under re.IGNORECASE
DashLabelPat(s) ==
    <<One({"-"}), WsStar, Phrase("long description of incident"), Star(AnyChar(s))>>

\* the dash, \s*\(.*long description of incident.*\) under re.IGNORECASE
ParenLabelPat(s) ==
    <<One({EnDash}), WsStar, One({"("}), Star(AnyChar(s)),
      Phrase("long description of incident"), Star(AnyChar(s)), One({")"})>>

CutParenLabel(s) == Strip(RemoveAll(s, ParenLabelPat(s)))
CutDashLabel(s) == CutParenLabel(Strip(RemoveAll(s, DashLabelPat(s))))

\* the narrative without the label of its field (lines 774-780)
ElevatorNarrative(narrative) == CutDashLabel(Strip(RemoveAll(narrative, DescriptionLabelPat)))

\* narrative[0].lower() + narrative[1:] if len(narrative) > 1 else narrative
LowerFirst(s) == IF Len(s) > 1 THEN LowerChar(Char(s, 1)) \o SubSeq(s, 2, Len(s)) ELSE s

\* buffer["action"] (lines 801-814); the text of lines 789-794 is always
\* replaced
ElevatorAction(narrative) ==
    IF narrative = "" THEN "reported that an incident occurred on site."
    ELSE IF ReSearch(LowerFirst(narrative), <<WB>> \o LitI("reported that") \o <<WB>>)
    THEN RStripChars(Strip(narrative), {"."})
    ELSE "reported that " \o LowerFirst(narrative)

\* t without the texts "hrs", ":" and " "
TimeDigits(t) == RemoveAll(RemoveAll(RemoveAll(Lower(t), Lit("hrs")), Lit(":")), Lit(" "))

\* ^(\d{1,2})(\d{2})?$
Time24Pat == <<Rep(DigitSet, 1, 2), Maybe(<<Rep(DigitSet, 2, 2)>>), EOS>>

\* the hours, the minutes and AM or PM (lines 827-835 and 868-876)
Clock12(hh, mm) ==
    ToStr(IF hh > 12 THEN hh - 12 ELSE IF hh = 0 THEN 12 ELSE hh) \o ":"
    \o (IF mm = "" THEN "00" ELSE mm) \o " " \o (IF hh >= 12 THEN "PM" ELSE "AM")

\* the incident time with AM or PM (lines 822-838 and 864-878)
FormatTime(t) ==
    IF ReMatch(TimeDigits(t), Time24Pat)
    THEN Clock12(ToInt(Group(TimeDigits(t), 1, Time24Pat, 1, 1)),
                 Group(TimeDigits(t), 1, Time24Pat, 2, 2))
    ELSE Strip(RemoveAll(Upper(t), Lit("HRS")))

\* the last resort for the date (lines 818-841)
IncidentStampOf(b) ==
    IF Strip(Get(b, "incident_time")) # ""
    THEN b["incident_date"] \o " " \o FormatTime(Strip(b["incident_time"]))
    ELSE b["incident_date"]

ElevatorSafeguard(b) ==
    IF ~Truthy(b, "date") /\ Truthy(b, "incident_date")
    THEN Put(b, "date", IncidentStampOf(b))
    ELSE b

\* the buffer build_event_line is called on (lines 716-841)
ElevatorBuffer(buffer) ==
    ElevatorSafeguard(
        Put(ElevatorDate(buffer), "action",
            ElevatorAction(ElevatorNarrative(
                Either(Strip(Get(buffer, "incident_description")),
                       Strip(Get(buffer, "action")))))))

\* \s*-\s*Long Description of Incident\s*:?\s* under re.IGNORECASE
EntryLabelPat ==
    <<WsStar, One({"-"}), WsStar, Phrase("Long Description of Incident"), WsStar,
      Opt({":"}), WsStar>>

\* the dash, \s*\(.*?\)$ under re.DOTALL
LastParenPat(s) ==
    <<One({EnDash}), WsStar, One({"("}), LazyStar(CharsOf(s)), One({")"}), EOS>>

\* the entry without the fragments of a label and without its last
\* parenthesis (lines 848-850)
ElevatorClean(evt) ==
    Strip(RemoveAll(CutParenLabel(Strip(Sub(evt, EntryLabelPat, " "))),
                    LastParenPat(evt)))

\* (-?\s*long\s*description\s*of\s*incident\s*:?.*) under re.IGNORECASE
PlaceLabelPat(s) ==
    <<Opt({"-"}), WsStar, Phrase("long"), WsStar, Phrase("description"), WsStar,
      Phrase("of"), WsStar, Phrase("incident"), WsStar, Opt({":"}), Star(AnyChar(s))>>

\* location_clean (lines 853-857)
FormatIfAny(loc) == IF loc # "" THEN format_location_name(loc) ELSE ""

CleanPlace(location) == FormatIfAny(Strip(RemoveAll(location, PlaceLabelPat(location))))

FinalPlace(location_clean, location) ==
    IF location_clean # "" THEN location_clean ELSE location

Red(label, value) == "<font color='red'>" \o label \o ": <b>" \o value \o "</b></font>"

\* lines 882-893
IncidentDateInfo(incident_date, formatted_time) ==
    IF incident_date # "" /\ formatted_time # ""
    THEN "<font color='red'>Incident Date: <b>" \o incident_date \o "</b> at <b>"
         \o formatted_time \o "</b></font>"
    ELSE Red("Incident Date", IF incident_date # "" THEN incident_date ELSE "N/A")

\* lines 896-905
LocationInfo(final_location) ==
    Red("Location", IF final_location # "" THEN final_location ELSE "N/A")

\* \b(photos?|evidence)\b.* under re.IGNORECASE
PhotosPat(s) ==
    <<WB, Alt(<<LitI("photo") \o <<Opt({"s", "S"})>>, LitI("evidence")>>), WB,
      Star(AnyChar(s))>>

\* \s{2,}
BlanksPat == <<Rep(SpaceSet, 2, -1)>>

\* lines 908-914
PartiesInfo(parties_raw) ==
    IF parties_raw = "" THEN <<>>
    ELSE <<"<font color='black'>Parties Involved: <b>"
           \o Sub(Strip(RemoveAll(parties_raw, PhotosPat(parties_raw))), BlanksPat, " ")
           \o "</b></font>">>

IfAny(t) == IF t = "" THEN "" ELSE FormatTime(t)

\* the red part of the entry (lines 880-917)
ElevatorExtra(b, location) ==
    " ("
    \o Join(<<IncidentDateInfo(Strip(Get(b, "incident_date")),
                               IfAny(Strip(Get(b, "incident_time")))),
              LocationInfo(FinalPlace(CleanPlace(location), location))>>
            \o PartiesInfo(Strip(Get(b, "parties_involved"))), ", ")
    \o ")"

\* the entry of an Elevator Entrapment Incident (lines 714-920); b is the
\* buffer build_event_line is called on
ElevatorEntryOf(b, evt, location) ==
    IF evt = "" THEN ""
    ELSE RStripChars(ElevatorClean(evt), {"."}) \o ElevatorExtra(b, location)

ElevatorEntry(buffer, b) ==
    ElevatorEntryOf(b, build_event_line(b),
                    ElevatorLocation(Strip(Get(buffer, "location")),
                                     Strip(Get(buffer, "incident_description")),
                                     Strip(Get(buffer, "action"))))

(***************************************************************************)
(* flush_event, Work Orders (lines 923-1100)                               *)
(***************************************************************************)
\* re.sub(pat, ..., s) where the replacement is the match with a line break
\* after its first k characters, from position p of s on
RECURSIVE BreakFrom(_, _, _, _)
BreakAt(s, p, pat, k, hits) ==
    IF hits = {} THEN SubSeq(s, p, Len(s))
    ELSE SubSeq(s, p, SetMin(hits) + k - 1) \o "\n"
         \o SubSeq(s, SetMin(hits) + k, MatchEnd(s, SetMin(hits), pat) - 1)
         \o BreakFrom(s, MatchEnd(s, SetMin(hits), pat), pat, k)

BreakFrom(s, p, pat, k) == BreakAt(s, p, pat, k, {q \in p..Len(s) : MatchesAt(s, q, pat)})

\* ([A-Za-z])-(\s*[A-Za-z])
LetterDashPat == <<One(AlphaSet), One({"-"}), WsStar, One(AlphaSet)>>

\* (Order)(Start\s*Date) under re.IGNORECASE
OrderStartPat == <<Phrase("Order"), Phrase("Start"), WsStar, Phrase("Date")>>

\* s.split("\n")
SplitAt(s, breaks) ==
    Pieces(s, {1} \cup {p + 1 : p \in breaks}, {p - 1 : p \in breaks} \cup {Len(s)})

\* without a last piece that is empty
DropEmptyLast(pieces) ==
    IF pieces[Len(pieces)] = "" THEN SubSeq(pieces, 1, Len(pieces) - 1) ELSE pieces

\* str.splitlines() for a text whose only line breaks are "\n"
SplitLines(s) == DropEmptyLast(SplitAt(s, {p \in 1..Len(s) : Char(s, p) = "\n"}))

\* the lines one line becomes (lines 942-944)
NormalizedLine(ln) ==
    SplitLines(BreakFrom(BreakFrom(ln, 1, LetterDashPat, 1), 1, OrderStartPat, 5))

\* normalized_lines (lines 940-944)
RECURSIVE NormalizedLines(_)
NormalizedLines(lines) ==
    IF lines = <<>> THEN <<>>
    ELSE NormalizedLine(Head(lines)) \o NormalizedLines(Tail(lines))

\* -\s*upload\s*pictures?\s*:
UploadPat ==
    <<One({"-"}), WsStar, Phrase("upload"), WsStar, Phrase("picture"), Opt({"s", "S"}),
      WsStar, One({":"})>>

\* -\s*description\s*:
DescriptionPat == <<One({"-"}), WsStar, Phrase("description"), WsStar, One({":"})>>

\* -\s*work\s*order\s*placed\s*on\s*building\s*engines
PlacedPat ==
    <<One({"-"}), WsStar, Phrase("work"), WsStar, Phrase("order"), WsStar, Phrase("placed"),
      WsStar, Phrase("on"), WsStar, Phrase("building"), WsStar, Phrase("engines")>>

\* ^-+\s*description\s*:\s*
DescriptionHeadPat ==
    <<Plus({"-"}), WsStar, Phrase("description"), WsStar, One({":"}), WsStar>>

\* REPORT\s*-\s*LOGBOOK\s*PDF
LogbookPat ==
    <<Phrase("REPORT"), WsStar, One({"-"}), WsStar, Phrase("LOGBOOK"), WsStar, Phrase("PDF")>>

\* \b300\s+Pine\s+Street\b
AddressPat == <<WB, Phrase("300"), WsPlus, Phrase("Pine"), WsPlus, Phrase("Street"), WB>>

\* where the loop of lines 953-960 stops: the first line that says the work
\* order was placed, the last line when there is none (indices from 1)
PlacedAt(nl, hits) == IF hits = {} THEN Len(nl) ELSE SetMin(hits)

\* desc_idx (lines 956-957), 0 for None
DescriptionAt(nl, stop) ==
    SetMax({0} \cup {k \in 1..stop :
                        /\ ReSearch(nl[k], DescriptionPat)
                        /\ \E u \in 1..k : ReSearch(nl[u], UploadPat)})

\* a line of the description without its label, "" when it is skipped
\* (lines 965-979)
WithoutHead(s) ==
    IF ReMatch(s, DescriptionHeadPat)
    THEN SubSeq(s, MatchEnd(s, 1, DescriptionHeadPat), Len(s)) ELSE s

DescriptionLineOf(s) ==
    IF \/ ReSearch(s, LogbookPat)
       \/ ReMatch(s, SubSeq(DateTimePat, 1, 9))
       \/ ReSearch(s, AddressPat)
    THEN "" ELSE s

DescriptionLine(s) == IF s = "" THEN "" ELSE DescriptionLineOf(WithoutHead(s))

\* re.sub(r"\s*\.\s*\.?", ".", s)
StopsPat == <<WsStar, One({"."}), WsStar, Opt({"."})>>

TidyStops(s) == Strip(SquashBlanks(Sub(s, StopsPat, ".")))

\* the lines from desc_idx up to placed_idx, joined (lines 963-984)
DescriptionBetween(nl, d, p) ==
    TidyStops(Strip(Join(SelectSeq([k \in 1..(p - d) |-> DescriptionLine(Strip(nl[d + k - 1]))],
                                   NotEmpty), " ")))

\* description (lines 946-984): placed_idx is not None and not 0
DescriptionFound(nl, d, hits) ==
    IF d # 0 /\ hits # {} /\ SetMin(hits) > 1 /\ SetMin(hits) > d
    THEN DescriptionBetween(nl, d, SetMin(hits))
    ELSE ""

DescriptionIn(nl, hits) == DescriptionFound(nl, DescriptionAt(nl, PlacedAt(nl, hits)), hits)

WorkOrderDescription(lines) ==
    DescriptionIn(NormalizedLines(lines),
                  {k \in 1..Len(NormalizedLines(lines)) :
                      ReSearch(NormalizedLines(lines)[k], PlacedPat)})

\* the location inferred from the description (lines 991-1022)
WorkOrderInferred(description) ==
    TidyCase(OrOnTheFloor(
        OrCode(TrimPlace(SearchGroupOr(Lower(description), NearPat, 4, 4, "")), description),
        Lower(description)))

\* location (lines 986-1026)
WorkOrderLocation(location, description) ==
    FormatIfAny(IF location = "" /\ description # "" THEN WorkOrderInferred(description)
                ELSE location)

BuildingEngines == "work order placed on building engines"

\* the fields of the buffer that name Building Engines (line 1036)
PlacedFields(b) == {k \in DOMAIN b : Contains(Lower(b[k]), BuildingEngines)}

\* placed_on_be (lines 1032-1039) is the answer of the first field that
\* names Building Engines; the order of the fields is not kept, so the
\* fields have to agree
PlacedKnown(b) ==
    \A j, k \in PlacedFields(b) : Contains(Lower(b[j]), "yes") = Contains(Lower(b[k]), "yes")

PlacedOnBE(b) == \E k \in PlacedFields(b) : Contains(Lower(b[k]), "yes")

\* lines 1042-1050
IsHandover(action_raw) ==
    ContainsAny(action_raw, {"new emails received", "work orders communicated",
                             "important info passed", "shift"})

\* \b(Cedar Grove|ABM|FedEx|UPS|SPS|Ryder|DHL|Old Dominion|USPS|CORT|Corti|Canteen)\b
VendorPat ==
    <<WB,
      Alt(<<<<Phrase("Cedar Grove")>>, <<Phrase("ABM")>>, <<Phrase("FedEx")>>,
            <<Phrase("UPS")>>, <<Phrase("SPS")>>, <<Phrase("Ryder")>>, <<Phrase("DHL")>>,
            <<Phrase("Old Dominion")>>, <<Phrase("USPS")>>, <<Phrase("CORT")>>,
            <<Phrase("Corti")>>, <<Phrase("Canteen")>>>>),
      WB>>

\* lines 1067-1070
Documented(description) ==
    IF description # ""
    THEN "documented a work order indicating that " \o LowerChar(Char(description, 1))
         \o SubSeq(description, 2, Len(description))
    ELSE "documented a work order request at the site"

\* lines 1072-1073
WithVendorName(vendor_name) ==
    IF vendor_name # "" THEN ", and notified " \o vendor_name \o " for service" ELSE ""

\* lines 1075-1078
WithBuildingEngines(placed_on_be) ==
    IF placed_on_be THEN ". <font color='green'>Work order placed on Building Engines.</font>"
    ELSE ". <font color='red'>Pending submission to Building Engines.</font>"

\* \(Location\s*: under re.IGNORECASE
LocationShownPat == <<One({"("}), Phrase("Location"), WsStar, One({":"})>>

\* lines 1082-1085
WithLocation(action_text, location) ==
    IF location # "" /\ ~ReSearch(action_text, LocationShownPat)
    THEN action_text \o " " \o EnDash \o " <font color='red'>(Location: <b>" \o location
         \o "</b>)</font>"
    ELSE action_text

\* action_text (lines 1054-1085); description is normalised once more
WorkOrderText(description, location, placed_on_be) ==
    Strip(WithLocation(Documented(description)
                       \o WithVendorName(SearchGroupOr(description, VendorPat, 2, 2, ""))
                       \o WithBuildingEngines(placed_on_be),
                       location))

WorkOrderAction(description, location, placed_on_be) ==
    WorkOrderText(StripChars(TidyStops(description), {".", " "}), location, placed_on_be)

\* the buffer build_event_line is called on (lines 1087-1092)
WorkOrderBuffer(b, action_text) ==
    Pop(Put(Put(b, "action", action_text), "company", ""), "location")

\* the entry of a work order, "" when nothing is appended (lines 1042-1099);
\* b is the buffer with its date
WorkOrderEntryOf(b, description, placed_on_be) ==
    IF IsHandover(Lower(Get(b, "action"))) \/ (description = "" /\ ~placed_on_be) THEN ""
    ELSE build_event_line(
             WorkOrderBuffer(b, WorkOrderAction(
                                    description,
                                    WorkOrderLocation(Strip(Get(b, "location")), description),
                                    placed_on_be)))

WorkOrderEntry(b, lines) == WorkOrderEntryOf(b, WorkOrderDescription(lines), PlacedOnBE(b))

\* the buffer after lines 925-936
WorkOrderDate(buffer) == ForceStartDate(Pop(buffer, "description"))

\* what one call of flush_event is remembered by
FlushRecord(buffer, labels, sec, options, before, after) ==
    [buffer |-> buffer, labels |-> labels, sec |-> sec, options |-> options,
     before |-> before, after |-> after]

\* every order a set can be iterated in
RECURSIVE Orders(_)
Orders(S) ==
    IF S = {} THEN {<<>>}
    ELSE UNION {{<<x>> \o o : o \in Orders(S \ {x})} : x \in S}

\* the end of flush_event without labels.clear()
FlushResetKeepsLabels(st) ==
    [st EXCEPT !.buffer = EmptyBuf, !.transient_tag_seen = FALSE, !.last_field = ""]

\* the end of flush_event (lines 2024-2028)
FlushReset(st) ==
    [st EXCEPT !.buffer = EmptyBuf, !.labels = {}, !.transient_tag_seen = FALSE,
               !.last_field = ""]

\* parsed[sec].append(evt) when evt is not empty; KeyError when sec is no key
AppendEvent(st, sec, evt) ==
    IF evt = "" THEN st
    ELSE IF ~HasKey(st.parsed, sec) THEN [st EXCEPT !.raised = "KeyError"]
    ELSE [st EXCEPT !.parsed = SetItems(@, sec, Append(Items(@, sec), evt))]

\* the narrative the branch of the section puts in buffer["action"]; AES
\* Phone Calls has a default action (lines 467-468)
SectionAction(buffer, sec) ==
    CASE sec = "Loading Dock Access (Lock & Unlock)" -> DockAction(buffer)
      [] sec = "AES Phone Calls" ->
             AesAction(IF Truthy(buffer, "action") THEN buffer
                       ELSE Put(buffer, "action",
                                "handled AES phone call to put the fire system on test"))
      [] sec = "Janitorial" -> JanitorialAction(buffer)
      [] OTHER -> buffer

\* the else branch counts the event (lines 2019-2022)
CountTransient(st, sec, evt) ==
    IF /\ st.raised = ""
       /\ sec \notin {"Loading Dock Access (Lock & Unlock)", "AES Phone Calls", "Janitorial",
                      "Elevator Entrapment Incidents", "Work Orders"}
       /\ evt # ""
       /\ sec = "Transient Removal" \/ st.transient_tag_seen
    THEN [st EXCEPT !.transient_count = @ + 1]
    ELSE st

\* the reset is reached unless the append raised
ResetUnlessRaised(st) == IF st.raised = "" THEN FlushReset(st) ELSE st

\* every section classify() can return for the labels in some order
ClassifyOptions(st) == {classify(st.buffer, o) : o \in Orders(st.labels)}

\* the history of the flush that took st0 to st
LogFlush(st, st0, sec) ==
    [st EXCEPT !.sec = sec,
               !.log = Append(@, FlushRecord(st0.buffer, st0.labels, sec,
                                             ClassifyOptions(st0), st0.parsed, st.parsed)),
               !.classified = @ + (IF sec = "Transient Removal" THEN 1 ELSE 0)]

\* the entry evt of buffer b1 goes to section sec
FlushEntry(st, sec, b1, evt) ==
    LogFlush(ResetUnlessRaised(
                 CountTransient(AppendEvent([st EXCEPT !.buffer = b1], sec, evt), sec, evt)),
             st, sec)

\* the buffer b1 the branch of the section leaves becomes an entry
FlushBuffer(st, sec, b1) == FlushEntry(st, sec, b1, build_event_line(b1))

\* the Elevator Entrapment branch, b being the buffer it builds the entry of
ElevatorFlush(st, sec, b) == FlushEntry(st, sec, b, ElevatorEntry(st.buffer, b))

\* the Work Orders branch, b being the buffer with its date; it is described
\* where the fields that name Building Engines agree
WorkOrderFlush(st, sec, b, lines) ==
    IF ~PlacedKnown(b) THEN [st EXCEPT !.outside = TRUE, !.sec = sec]
    ELSE FlushEntry(st, sec, b, WorkOrderEntry(b, lines))

\* flush_event from the choice of the section on; the Additional
\* Information branch starts its scan (st.scan)
FlushSection(st, sec, lines) ==
    IF sec \notin FlushSections THEN [st EXCEPT !.outside = TRUE, !.sec = sec]
    ELSE IF sec = "Additional Information" THEN LogFlush([st EXCEPT !.scan = TRUE], st, sec)
    ELSE IF sec = "Elevator Entrapment Incidents"
    THEN ElevatorFlush(st, sec, ElevatorBuffer(st.buffer))
    ELSE IF sec = "Work Orders" THEN WorkOrderFlush(st, sec, WorkOrderDate(st.buffer), lines)
    ELSE FlushBuffer(st, sec, SectionAction(st.buffer, sec))

\* flush_event; order is the order in which classify() iterates the label set
flush_event(st, order, lines) ==
    IF Discards(st.buffer)
    THEN [st EXCEPT !.buffer = EmptyBuf, !.last_field = "",
                    !.log = Append(@, FlushRecord(st.buffer, st.labels, "", {},
                                                  st.parsed, st.parsed))]
    ELSE FlushSection(st, classify(st.buffer, order), lines)

(***************************************************************************)
(* The body of the main loop (lines 2032-3213), handler by handler in the  *)
(* order of the code.  A handler that calls flush_event is two steps: up   *)
(* to the call (st.call), and from the call on; st.at names the handler    *)
(* whose first step ran, for its second step.                              *)
(***************************************************************************)
Continue(st) == [st EXCEPT !.done = TRUE, !.at = ""]

Category(st) == Lower(Get(st.buffer, "category"))

\* if not ln: continue (line 2033)
SkipEmpty(st, ln) == IF ln = "" THEN Continue(st) ELSE st

\* ^\s*numbers\)\s*:\s* (lines 2037-2039)
SkipNumbers(st, ln) ==
    IF ReMatch(ln, <<WsStar>> \o LitI("numbers)") \o <<WsStar>> \o Lit(":"))
    THEN Continue([st EXCEPT !.last_field = ""])
    ELSE st

\* start\s*date\s*:\s*([0-9/]+\s+\d{1,2}:\d{2}\s*[APap][Mm]), the group
\* being the atoms 14..21
StartDateValuePat ==
    LitI("start") \o <<WsStar>> \o LitI("date") \o <<WsStar>> \o Lit(":")
    \o <<WsStar, Plus(DigitSet \cup {"/"}), WsPlus, Rep(DigitSet, 1, 2)>> \o Lit(":")
    \o <<Rep(DigitSet, 2, 2), WsStar, One({"A", "a", "P", "p"}), One({"M", "m"})>>

\* Start Date inside an Incident Report or an Elevator Entrapment Incident
\* (lines 2042-2053 and 2056-2071): the flush
StartInside(st, ln, tag, name) ==
    IF Contains(Category(st), tag) /\ ReSearch(ln, StartDateValuePat)
    THEN [st EXCEPT !.at = name, !.call = Truthy(st.buffer, "date")]
    ELSE st

\* ... and the new event
StartInsideSet(st, ln, name) ==
    IF st.at = name
    THEN LET start_val == Strip(SearchGroup(ln, StartDateValuePat, 14, 21))
         IN  Continue([st EXCEPT
                 !.buffer = Put(Put(@, "start_date", start_val), "date", start_val),
                 !.last_field = "date"])
    ELSE st

\* a bare time stamp under Key Service (lines 2158-2166), Loading Dock
\* (2168-2176) or Fire Panel (2179-2192): the flush
StampGuard(st, ln, name) ==
    /\ IsTimestampLine(ln)
    /\ CASE name = "key_stamp" -> Contains(Category(st), "key service")
         [] name = "dock_stamp" ->
                Contains(Category(st), "loading dock") \/ Contains(Category(st), "dock gate")
         [] name = "fire_stamp" ->
                /\ Contains(Category(st), "fire panel")
                /\ ~ReSearch(ln, <<WB, WordsI(<<"until", "by", "at">>), WB>>)

StampFlushes(st, name) ==
    /\ Truthy(st.buffer, "date")
    /\ name = "key_stamp" \/ Truthy(st.buffer, "action") \/ Truthy(st.buffer, "company")

Stamp(st, ln, name) ==
    IF StampGuard(st, ln, name)
    THEN [st EXCEPT !.at = name, !.call = StampFlushes(st, name)]
    ELSE st

\* ... and the new event (buffer.clear() after a flush finds it empty)
StampSet(st, ln, name) ==
    IF st.at = name
    THEN Continue([st EXCEPT !.buffer = Put(@, "date", Strip(ln)), !.last_field = "date"])
    ELSE st

\* re.sub(r"\(.*?\)", "", s)
RemoveBrackets(s) == RemoveAll(s, Lit("(") \o <<LazyStar(AnyChar(s))>> \o Lit(")"))

\* LAST First becomes First Last (lines 2214-2221)
DockName(parts) ==
    IF Len(parts) = 2 /\ (IsUpper(parts[1]) \/ IsUpper(Char(parts[1], 1)))
    THEN Capitalize(parts[2]) \o " " \o Capitalize(parts[1])
    ELSE CapitalizeAll(parts)

\* the officer named above a "Loading Dock Gate" line (lines 2201-2224)
RECURSIVE DockOfficerAbove(_, _, _)
DockOfficerAt(lines, back, stop, prev_line) ==
    IF ReMatch(prev_line, NamePat(AlphaSet, <<OfficersRole(TRUE), SupervisorsRole(WsPlus)>>))
    THEN DockName(Split(Strip(RemoveBrackets(prev_line))))
    ELSE DockOfficerAbove(lines, back - 1, stop)

DockOfficerAbove(lines, back, stop) ==
    IF back <= stop THEN ""
    ELSE DockOfficerAt(lines, back, stop, Strip(Line(lines, back)))

\* \s+[A-Z][A-Za-z]+ under re.IGNORECASE
NameWordPat == <<WsPlus, One(AlphaSet), Plus(AlphaSet)>>

\* ^[A-Z][A-Za-z]+(?:\s+[A-Z][A-Za-z]+){1,2}(?:\s*\((?:Officers?|Site\s+Supervisors?)\))?$
LongNamePat ==
    <<One(AlphaSet), Plus(AlphaSet), Alt(<<NameWordPat \o NameWordPat, NameWordPat>>),
      Maybe(<<WsStar>> \o Lit("(")
            \o <<Alt(<<OfficersRole(TRUE), SupervisorsRole(WsPlus)>>)>> \o Lit(")")),
      EOS>>

\* lines 2246-2255 and 2278-2287
PanelName(parts) ==
    IF Len(parts) = 2 /\ IsUpper(parts[1])
    THEN Capitalize(parts[2]) \o " " \o Capitalize(parts[1])
    ELSE IF Len(parts) = 3 /\ IsUpper(parts[1])
    THEN Capitalize(parts[2]) \o " " \o Capitalize(parts[3])
    ELSE CapitalizeAll(parts)

IsPanelNoise(low) ==
    \E w \in {"new activity", "300 pine", "close", "start date", "geolocation", "page",
              "report"} : StartsWith(low, w)

\* the officer named above a "Fire Panel Bypass/Online" or an "AES Phone
\* Call" line (lines 2233-2256 and 2265-2288)
RECURSIVE PanelOfficerAbove(_, _, _)
PanelOfficerAt(lines, back, stop, prev_line) ==
    IF IsPanelNoise(Lower(prev_line)) \/ ~ReMatch(prev_line, LongNamePat)
    THEN PanelOfficerAbove(lines, back - 1, stop)
    ELSE PanelName(Split(Strip(RemoveBrackets(prev_line))))

PanelOfficerAbove(lines, back, stop) ==
    IF back <= stop THEN ""
    ELSE PanelOfficerAt(lines, back, stop, Strip(Line(lines, back)))

\* buffer["officer"] = name when a name was found
SetOfficer(st, name) ==
    IF name = "" THEN st ELSE [st EXCEPT !.buffer = Put(@, "officer", name)]

\* \bw1\s+w2\s+w3\b under re.IGNORECASE
SpacedPat(ws) ==
    <<WB>> \o LitI(ws[1]) \o <<WsPlus>> \o LitI(ws[2]) \o <<WsPlus>> \o LitI(ws[3])
    \o <<WB>>

DockGateOfficer(st, ln, lines, i) ==
    IF ReSearch(ln, SpacedPat(<<"Loading", "Dock", "Gate">>))
    THEN SetOfficer(st, DockOfficerAbove(lines, i - 1, Max2(0, i - 6)))
    ELSE st

PanelOfficer(st, ln, lines, i, ws) ==
    IF ReSearch(ln, SpacedPat(ws))
    THEN SetOfficer(st, PanelOfficerAbove(lines, i - 1, Max2(0, i - 6)))
    ELSE st

\* the three look-backs for the officer (lines 2199-2288); i is the index of ln
OfficerAbove(st, ln, lines, i) ==
    PanelOfficer(PanelOfficer(DockGateOfficer(st, ln, lines, i), ln, lines, i,
                              <<"Fire", "Panel", "Bypass/Online">>),
                 ln, lines, i, <<"AES", "Phone", "Call">>)

(***************************************************************************)
(* The sub-blocks (lines 2336-2822): SPD, Seattle Ambassadors, unsecure    *)
(* door.  Of the lines inside a block the model describes the Start Date   *)
(* line, the closing line and the lines no branch takes; the other         *)
(* branches are those of Unsupported below.                                *)
(***************************************************************************)
\* lines.index(ln), from 0
IndexOfLine(lines, ln) == SetMin({j \in 0..(Len(lines) - 1) : lines[j + 1] = ln})

\* lines[a:b]
Slice(lines, a, b) == SubSeq(lines, a + 1, IF b < Len(lines) THEN b ELSE Len(lines))

\* [\d/]+\s+\d{1,2}:\d{2}\s*(?:[APap][Mm])?: 7 atoms
LooseStampPat ==
    <<Plus(DigitSet \cup {"/"}), WsPlus, Rep(DigitSet, 1, 2)>> \o Lit(":")
    \o <<Rep(DigitSet, 2, 2), WsStar, Maybe(<<One({"A", "a", "P", "p"}), One({"M", "m"})>>)>>

\* start\s*date\s*: under re.IGNORECASE: 12 atoms
StartDateColonPat ==
    LitI("start") \o <<WsStar>> \o LitI("date") \o <<WsStar>> \o Lit(":")

\* start\s*date\s*:\s*(the loose stamp): the group is the atoms 14..20
StartLoosePat == StartDateColonPat \o <<WsStar>> \o LooseStampPat

\* m.group(1).strip() for the first line of block that start\s*date\s*:\s*(...)
\* matches, "" when none does
FirstStartAt(block, hits) ==
    IF hits = {} THEN ""
    ELSE Strip(SearchGroup(block[SetMin(hits)], StartLoosePat, 14, 20))
FirstStart(block) ==
    FirstStartAt(block, {j \in 1..Len(block) : ReSearch(block[j], StartLoosePat)})

\* b with b[k] = v when v is not empty
PutIf(b, k, v) == IF v # "" THEN Put(b, k, v) ELSE b

SpdSection == "SPD Presence/Emergency Response on Site"

\* the header of an SPD block (lines 2336-2357); start is the Start Date of
\* the look-ahead
SpdHeaderSet(st, start) ==
    Continue([st EXCEPT
        !.in_spd = TRUE,
        !.spd_buffer = PutIf(PutIf(Put(EmptyBuf, "category", SpdSection), "officer",
                                   Strip(Get(st.buffer, "officer"))),
                             "start_date", start),
        !.buffer = PutIf(Pop(@, "start_date"), "start_date", start)])

SpdHeader(st, ln, lines) ==
    IF Contains(Lower(ln), "spd presence/emergency response on")
    THEN SpdHeaderSet(st, FirstStart(Slice(lines, IndexOfLine(lines, ln),
                                           IndexOfLine(lines, ln) + 4)))
    ELSE st

\* re.sub(r"–\s*\([^)]+\)\s*$", "", evt).strip()
TrailingParenPat(evt) ==
    <<One({EnDash}), WsStar, One({"("}), Plus(CharsOf(evt) \ {")"}), One({")"}), WsStar, EOS>>
CutTrailingParen(evt) ==
    IF ReSearch(evt, TrailingParenPat(evt))
    THEN Strip(SubSeq(evt, 1, SearchStart(evt, TrailingParenPat(evt)) - 1))
    ELSE Strip(evt)

\* the entry of an SPD block with no incident date, caller or parties
\* (lines 2595-2616)
SpdEntry(b, evt) ==
    IF evt = "" THEN ""
    ELSE CutTrailingParen(evt)
         \o (IF Truthy(b, "location")
             THEN " (<font color='red'>Location: <b>" \o b["location"] \o "</b></font>)"
             ELSE "")

\* the end of an SPD block (lines 2563-2619), b being spd_buffer with its date
SpdEndWith(st, b) ==
    [AppendEvent(st, SpdSection, SpdEntry(b, build_event_line(b)))
        EXCEPT !.in_spd = FALSE, !.spd_buffer = EmptyBuf]

SpdEnd(st) == SpdEndWith(st, Put(st.spd_buffer, "date", Get(st.spd_buffer, "start_date")))

\* ^-+\s*(who called|parties|images|upload picture|date|time|location)\b
FieldHeadPat ==
    <<Plus({"-"}), WsStar,
      WordsI(<<"who called", "parties", "images", "upload picture", "date", "time",
               "location">>), WB>>

\* the text after the colon and the lines that follow, up to the first
\* field header (lines 2480-2487); idx is lines.index(ln)
DescLines(lines, idx, stops) ==
    SelectSeq([j \in 1..(SetMin(stops \cup {Len(lines) + 1}) - idx - 2) |->
                   Strip(lines[idx + 1 + j])], NotEmpty)

DescJoined(ln, lines, idx) ==
    Join(<<AfterColon(ln)>>
         \o DescLines(lines, idx, {j \in (idx + 2)..Len(lines) :
                                      ReMatch(Strip(lines[j]), FieldHeadPat)}), " ")

\* the OCR typos (lines 2491-2495)
TidyFirst(desc) ==
    Strip(SquashBlanks(
        Sub(Sub(Sub(Sub(desc, <<WB>> \o LitI("5he") \o <<WB>>, "the"),
                    <<WB>> \o LitI("aed") \o <<WB>>, "A"),
                <<WB>> \o LitI("w") \o <<WsStar>> \o LitI("he") \o <<WB>>, "when he"),
            <<WB>> \o LitI("n on") \o <<WB>>, " on")))

\* ... and again (lines 2524-2527)
TidyAgain(desc) ==
    Strip(SquashBlanks(
        Sub(Sub(Sub(desc, <<WB>> \o LitI("aed") \o <<WB>>, "A"),
                <<WB>> \o LitI("w") \o <<WsStar>> \o LitI("he") \o <<WB>>, "when he"),
            <<WB>> \o LitI("5he") \o <<WB>>, "the")))

UpperFirst(desc) == IF desc = "" THEN "" ELSE UpperChar(Head(desc)) \o Tail(desc)

EndStop(desc) == IF EndsWith(desc, ".") THEN desc ELSE desc \o "."

\* the transfer-to-hospital sentence, once (lines 2500-2506)
WithHospital(desc) ==
    IF ReSearch(desc, <<WB>> \o LitI("transferred to the hospital") \o <<WB>>)
    THEN EndStop(desc)
    ELSE EndStop(desc) \o " The individual was transferred to the hospital."

\* LAST First becomes First Last (lines 2509-2515 and 2530-2536)
SpdOfficerParts(norm, parts) ==
    IF Len(parts) = 2 /\ IsUpper(parts[1])
    THEN Capitalize(parts[2]) \o " " \o Capitalize(parts[1])
    ELSE norm

SpdOfficerNorm(officer) ==
    SpdOfficerParts(Strip(SquashBlanks(officer)), Split(Strip(SquashBlanks(officer))))

SpdOfficer(b) ==
    IF Strip(Get(b, "officer")) = "" THEN b
    ELSE Put(b, "officer", SpdOfficerNorm(Strip(Get(b, "officer"))))

\* the first word in lower case when it is ^[A-Z][a-z]?$ (lines 2542-2546)
LowerFirstToken(desc, first_token) ==
    IF ReMatch(first_token, <<One(UpperSet), Opt(LowerSet), EOS>>)
    THEN Lower(first_token) \o SubSeq(desc, Len(first_token) + 1, Len(desc))
    ELSE desc

FirstToken(desc) ==
    IF Find(desc, " ") = 0 THEN desc ELSE SubSeq(desc, 1, Find(desc, " ") - 1)

ReportedThat(desc) ==
    IF desc # "" THEN "reported that " \o LowerFirstToken(desc, FirstToken(desc))
    ELSE "reported that an incident occurred on site."

\* the officer's name out of the narrative (lines 2556-2563)
StartReported(desc) ==
    IF StartsWith(Lower(desc), "reported that") THEN desc
    ELSE "reported that " \o Strip(desc)

WithoutOfficer(desc, officer) ==
    IF officer = "" THEN desc
    ELSE StartReported(
             Sub(Strip(Sub(desc, <<WB>> \o LitI("officer") \o <<WsPlus>> \o LitI(officer)
                                 \o <<WB>>, "")),
                 <<WB>> \o LitI("reported that") \o <<WsPlus>> \o LitI("reported that")
                 \o <<WB>>, "reported that"))

\* the narrative of the long description (lines 2478-2565); b is spd_buffer
\* after the first normalisation of its officer
SpdNarrative(b, desc) ==
    Put(SpdOfficer(b), "action",
        WithoutOfficer(ReportedThat(Strip(SquashBlanks(TidyAgain(Strip(desc))))),
                       Strip(Get(b, "officer"))))

SpdDescription(st, ln, lines) ==
    [st EXCEPT !.spd_buffer =
        SpdNarrative(SpdOfficer(@),
                     WithHospital(UpperFirst(TidyFirst(
                         DescJoined(ln, lines, IndexOfLine(lines, ln))))))]

\* a line inside an SPD block (lines 2359-2620)
SpdLine(st, ln, lines) ==
    IF ReSearch(ln, StartDateColonPat)
    THEN [st EXCEPT !.spd_buffer = Put(@, "start_date", AfterColon(ln)),
                    !.buffer = Put(@, "start_date", AfterColon(ln))]
    ELSE IF Contains(Lower(ln), "long description of incident")
    THEN SpdDescription(st, ln, lines)
    ELSE IF StartsWith(Lower(Strip(ln)), "new activity") \/ Lower(Strip(ln)) = "close"
    THEN SpdEnd(st)
    ELSE st

SpdBlock(st, ln, lines) == IF st.in_spd THEN Continue(SpdLine(st, ln, lines)) ELSE st

\* (\d{1,2})/(\d{1,2})/(\d{4})\s+(\d{1,2}):(\d{2})(?:\s*([APap][Mm]))?
\* atoms: 1 mm, 3 dd, 5 yyyy, 7 hour, 9 minutes, 10 the rest
AmbassadorDatePat ==
    <<Rep(DigitSet, 1, 2)>> \o Lit("/") \o <<Rep(DigitSet, 1, 2)>> \o Lit("/")
    \o <<Rep(DigitSet, 4, 4), WsPlus, Rep(DigitSet, 1, 2)>> \o Lit(":")
    \o <<Rep(DigitSet, 2, 2), Maybe(<<WsStar, One({"A", "a", "P", "p"}), One({"M", "m"})>>)>>

\* the hour and the half of the day of the 24-hour time hh
Hour12(hh) == IF hh > 12 THEN hh - 12 ELSE IF hh = 0 THEN 12 ELSE hh
Half(hh) == IF hh >= 12 THEN "PM" ELSE "AM"

\* the date of an ambassador block for its Start Date value (lines 2660-2675)
AmbassadorDateAt(v, lens) ==
    Pad2(ToInt(Span(v, 1, lens, 1, 1))) \o "/" \o Pad2(ToInt(Span(v, 1, lens, 3, 3)))
    \o "/" \o SubSeq(Span(v, 1, lens, 5, 5), 3, 4) \o " "
    \o (IF Span(v, 1, lens, 10, 10) = ""
        THEN ToStr(Hour12(ToInt(Span(v, 1, lens, 7, 7)))) \o ":" \o Span(v, 1, lens, 9, 9)
             \o " " \o Half(ToInt(Span(v, 1, lens, 7, 7)))
        ELSE ToStr(ToInt(Span(v, 1, lens, 7, 7))) \o ":" \o Span(v, 1, lens, 9, 9)
             \o " " \o Upper(Strip(Span(v, 1, lens, 10, 10))))
AmbassadorDate(v) ==
    IF ReMatch(v, AmbassadorDatePat) THEN AmbassadorDateAt(v, AtomLens(v, 1, AmbassadorDatePat))
    ELSE v

\* the header of a Seattle Ambassadors block (lines 2623-2637); start is the
\* Start Date on the header line, "" when it has none
AmbassadorHeaderSet(st, start) ==
    Continue([st EXCEPT
        !.in_ambassador = TRUE,
        !.ambassador_buffer =
            PutIf(PutIf(Put(EmptyBuf, "category", "Seattle Ambassadors"), "start_date",
                        start), "date", start),
        !.buffer = PutIf(Pop(@, "start_date"), "start_date", start)])

AmbassadorHeader(st, ln) ==
    IF Lower(Strip(ln)) = "seattle ambassadors"
       \/ Contains(Lower(ln), "seattle ambassadors start date")
    THEN AmbassadorHeaderSet(st, FirstStart(<<ln>>))
    ELSE st

\* Close inside an ambassador block (lines 2642-2652): skipped when the next
\* line opens another one
AmbassadorClose(st, lines, nxt) ==
    IF nxt < Len(lines) /\ Contains(Lower(lines[nxt + 1]), "seattle ambassadors") THEN st
    ELSE [st EXCEPT !.in_ambassador = FALSE, !.ambassador_buffer = EmptyBuf]

\* a line inside an ambassador block (lines 2640-2735), but for the end of
\* the block at NEW ACTIVITY
AmbassadorLine(st, ln, lines) ==
    IF Lower(Strip(ln)) = "close" THEN AmbassadorClose(st, lines, IndexOfLine(lines, ln) + 1)
    ELSE IF ReSearch(ln, StartDateColonPat)
    THEN [st EXCEPT
             !.ambassador_buffer = Put(Put(@, "start_date", AfterColon(ln)), "date",
                                       AmbassadorDate(AfterColon(ln))),
             !.buffer = Put(@, "start_date", AfterColon(ln))]
    ELSE st

AmbassadorBlock(st, ln, lines) ==
    IF st.in_ambassador THEN Continue(AmbassadorLine(st, ln, lines)) ELSE st

\* the Start Date the look-ahead of an unsecure-door line keeps: that of
\* the last line of block with a start date and a stamp
LastStartAt(block, hits) ==
    IF hits = {} THEN ""
    ELSE Strip(SearchGroup(block[SetMax(hits)], LooseStampPat, 1, 7))
LastStart(block) ==
    LastStartAt(block, {j \in 1..Len(block) : /\ ReSearch(block[j], StartDateColonPat)
                                              /\ ReSearch(block[j], LooseStampPat)})

\* unsecure_buffer with no incident date or time, no officer and no location
UnsecureBuffer(start) ==
    Put(Put(Put(EmptyBuf, "category", "Retail Issues"), "date", start), "action",
        "reported that a door at  was found unsecured and was properly secured upon discovery.")

\* an unsecure-door line (lines 2739-2822): in_unsecure is set and reset
UnsecureDoor(st, ln, lines) ==
    IF Contains(Lower(ln), "unsecure door")
    THEN Continue([AppendEvent([st EXCEPT !.in_unsecure = TRUE], "Retail Issues",
                               build_event_line(UnsecureBuffer(
                                   LastStart(Slice(lines, IndexOfLine(lines, ln),
                                                   IndexOfLine(lines, ln) + 15)))))
                      EXCEPT !.in_unsecure = FALSE])
    ELSE st

\* TOUR blocks (lines 2826-2832)
Tour(st, ln) ==
    IF StartsWith(Upper(ln), "TOUR") THEN Continue([st EXCEPT !.in_tour = TRUE])
    ELSE LET s1 == IF st.in_tour
                      /\ (StartsWith(ln, "NEW ACTIVITY") \/ StartsWith(ln, "Start Date"))
                   THEN [st EXCEPT !.in_tour = FALSE] ELSE st
         IN  IF s1.in_tour THEN Continue(s1) ELSE s1

LabelTokens ==
    {"AES Phone Call", "Loading Dock Gate", "Key Service", "Work Order", "Janitorial",
     "Incident Report", "Alarm", "Fire Panel Bypass/Online", "Transient Removal", "Retail",
     "Tenant", "Other/Miscellaneous", "Elevator Entrapment", "Entrapment Incident",
     "Stuck in Elevator"}

\* label capture (lines 2835-2855): an Incident Report label flushes
LabelIncident(st, ln) ==
    IF ContainsAny(ln, LabelTokens)
    THEN IF Contains(Lower(ln), "incident report")
         THEN [st EXCEPT !.at = "label", !.call = TRUE,
                         !.carry = [k \in {"officer", "date"} \cap DOMAIN st.buffer |->
                                       st.buffer[k]]]
         ELSE [st EXCEPT !.at = "label"]
    ELSE st

\* ... a second Transient Removal label flushes
LabelTransient(st, ln) ==
    IF st.at = "label"
    THEN [st EXCEPT !.buffer = Update(@, st.carry), !.carry = EmptyBuf,
                    !.at = "label_set",
                    !.call = /\ Contains(Lower(ln), "transient removal")
                             /\ Lower(Get(Update(st.buffer, st.carry), "category"))
                                = "transient removal"]
    ELSE st

\* ... and the label is recorded; the line goes on to the handlers below
LabelSet(st, ln) ==
    IF st.at = "label_set"
    THEN [st EXCEPT !.labels = @ \cup {ln},
                    !.buffer = Put(@, "category", Strip(ln)),
                    !.transient_tag_seen = @ \/ Contains(ln, "Transient Removal"),
                    !.at = ""]
    ELSE st

SetField(st, field, value) ==
    Continue([st EXCEPT !.buffer = Put(@, field, value), !.last_field = field])

\* OFFICER_LINE_RX and OFFICER_LINE_RX_ALT (lines 416-418), the name being
\* the first atom
OfficerLinePat(ln, role) ==
    <<LazyStar(AnyChar(ln)), WsStar>> \o Lit("(") \o role \o Lit(")")
    \o <<WsStar, EOS>>

OfficerName(ln, pat) == StripChars(Group(ln, 1, pat, 1, 1), {" ", "-", ":"})

\* the name on a line that matches pat, else other
OfficerBy(st, ln, pat, other) ==
    IF ReMatch(ln, pat) THEN SetField(st, "officer", OfficerName(ln, pat)) ELSE other

\* the officer lines (lines 2858-2884)
Officer(st, ln) ==
    IF ln = "Officer"
    THEN Continue([st EXCEPT !.waiting_officer_nested = TRUE, !.last_field = ""])
    ELSE IF st.waiting_officer_nested /\ StartsWith(ln, "- Officer :")
    THEN SetField([st EXCEPT !.waiting_officer_nested = FALSE], "officer", AfterColon(ln))
    ELSE IF StartsWith(ln, "- Officer :") \/ StartsWith(ln, "Officer :")
    THEN SetField(st, "officer", AfterColon(ln))
    ELSE OfficerBy(st, ln, OfficerLinePat(ln, OfficersRole(TRUE)),
                   OfficerBy(st, ln, OfficerLinePat(ln, SupervisorsRole(WsPlus)), st))

\* LAST First becomes First Last (lines 2899-2905)
NormalName(parts) ==
    IF Len(parts) = 2 /\ IsUpper(parts[1]) /\ IsUpper(Char(parts[2], 1))
    THEN Capitalize(parts[2]) \o " " \o Capitalize(parts[1])
    ELSE CapitalizeAll(parts)

NormalizeName(st, name) ==
    IF ReMatch(name,
               <<WordsI(<<"Activities", "Loading", "Key", "Door", "Gate", "Victrola",
                          "Uniqlo", "Report", "Duration", "Object">>), WB>>)
    THEN st
    ELSE [st EXCEPT !.buffer = Put(@, "officer", NormalName(Split(name)))]

\* the officer held in the buffer is normalised on every line that gets
\* here (lines 2895-2905)
NormalizeOfficer(st) ==
    IF ~Truthy(st.buffer, "officer") THEN st
    ELSE NormalizeName(st, Strip(st.buffer["officer"]))

\* NEW ACTIVITY closes an Incident Report (lines 2908-2910)
NewActivity(st, ln) ==
    IF StartsWith(ln, "NEW ACTIVITY") /\ Category(st) = "incident report"
    THEN [st EXCEPT !.at = "new_activity", !.call = TRUE]
    ELSE st

NewActivityDone(st) == IF st.at = "new_activity" THEN Continue(st) ELSE st

\* Start Date opens an event (lines 2920-2931): the flush
StartDate(st, ln) ==
    IF StartsWith(ln, "Start Date")
    THEN [st EXCEPT !.at = "start_date", !.call = Category(st) # "incident report"]
    ELSE st

\* ... and the date of the new event
StartDateSet(st, ln) ==
    IF st.at = "start_date" THEN SetField(st, "date", AfterColon(ln)) ELSE st

\* lines that are skipped (lines 2935-2955)
Skipped(st, ln) ==
    IF \/ ContainsAny(ln, {"Minute Break", "Lunch Break", "Break Details"})
       \/ ContainsAny(ln, {"Totals Activities", "Total Activities", "Object Duration",
                           "Activity Duration"})
       \/ Lower(Strip(ln)) = "close"
       \/ \E w \in {"escalation?", "- was the police", "- (if so", "- upload picture",
                    "- call back number", "- all persons involved"} :
              StartsWith(Lower(ln), w)
    THEN Continue([st EXCEPT !.last_field = ""])
    ELSE st

\* the fields read off one line (lines 2958-2984)
Content(st, ln) ==
    LET low == Lower(ln)
    IN  IF ContainsAny(ln, {"Security action", "What are you doing", "What did you do"})
        THEN SetField(st, "action", AfterColon(ln))
        ELSE IF StartsWith(low, "- description of what happened")
        THEN SetField(st, "incident_description", AfterColon(ln))
        ELSE IF StartsWith(low, "- operator name")
        THEN SetField(st, "operator_name", AfterColon(ln))
        ELSE IF StartsWith(low, "- operator #") \/ StartsWith(low, "- operator number")
        THEN SetField(st, "operator_number", AfterColon(ln))
        ELSE IF StartsWith(low, "- comments")
        THEN SetField(st, "incident_comments", AfterColon(ln))
        ELSE st

\* a bare time stamp inside an Incident Report (lines 2995-3000)
IncidentStamp(st, ln) ==
    IF IsTimestampLine(ln) /\ Category(st) = "incident report"
    THEN Continue(IF "start_date" \in DOMAIN st.buffer THEN st
                  ELSE [st EXCEPT !.buffer =
                            Put(Put(@, "start_date", Strip(ln)), "date", Strip(ln))])
    ELSE st

\* (Date\s*of\s*(the\s*)?Incident|Incident\s*Date) under re.IGNORECASE, and
\* the same for Time
IncidentLabel(word) ==
    Alt(<<<<Phrase(word), WsStar, Phrase("of"), WsStar, Maybe(<<Phrase("the"), WsStar>>),
            Phrase("incident")>>,
          <<Phrase("incident"), WsStar, Phrase(word)>>>>)

\* ...\s*:\s*([0-9/]+), the date being atom 5
IncidentDatePat ==
    <<IncidentLabel("date"), WsStar, One({":"}), WsStar, Plus(DigitSet \cup {"/"})>>

\* ...\s*:\s*([0-9:]+\s*(AM|PM|am|pm)?), the time being the atoms 5..7
IncidentTimePat ==
    <<IncidentLabel("time"), WsStar, One({":"}), WsStar, Plus(DigitSet \cup {":"}), WsStar,
      Maybe(<<Alt(<<<<Phrase("am")>>, <<Phrase("pm")>>>>)>>)>>

\* the date, the time, the location and the long description of an
\* incident (lines 3026-3057)
IncidentFields(st, ln) ==
    IF ReSearch(ln, IncidentDatePat)
    THEN SetField(st, "incident_date", Strip(SearchGroup(ln, IncidentDatePat, 5, 5)))
    ELSE IF ReSearch(ln, IncidentTimePat)
    THEN SetField(st, "incident_time", Strip(SearchGroup(ln, IncidentTimePat, 5, 7)))
    ELSE IF StartsWith(Lower(ln), "- incident location")
    THEN SetField(st, "location", AfterColon(ln))
    ELSE IF StartsWith(Lower(ln), "- long description of incident")
    THEN SetField(st, "incident_description", AfterColon(ln))
    ELSE st

\* the lines after a long description (lines 3060-3082)
DescriptionMore(st, ln) ==
    LET stripped == Strip(ln)
        dash == Maybe(Lit("-") \o <<WsStar>>)
        parties == <<dash>> \o LitI("parties") \o <<WsPlus>> \o LitI("involved") \o <<WB>>
        headers == <<dash, WordsI(<<"additional comments", "photos", "photo", "evidence",
                                    "incident info", "geolocation">>), WB>>
        noise == \/ ReSearch(stripped, LitI("report") \o <<WsStar>> \o Lit("-") \o <<WsStar>>
                                       \o LitI("logbook") \o <<WsStar>> \o LitI("pdf"))
                 \/ ReSearch(stripped, <<WB>> \o LitI("page")
                                       \o <<WsStar, Plus(DigitSet)>> \o Lit("/")
                                       \o <<Plus(DigitSet)>>)
    IN  IF st.last_field # "incident_description" THEN st
        ELSE IF ReMatch(stripped, parties)
        THEN SetField(st, "parties_involved", "")
        ELSE IF ReMatch(stripped, headers) THEN Continue([st EXCEPT !.last_field = ""])
        ELSE IF noise THEN Continue(st)
        ELSE Continue([st EXCEPT !.buffer = Put(@, "incident_description",
                           Strip(Get(@, "incident_description") \o " " \o stripped))])

\* the vehicle fields (lines 3137-3151); last_field stays
Vehicle(st, ln) ==
    LET low == Lower(ln)
        keep(field) == Continue([st EXCEPT !.buffer = Put(@, field, AfterColon(ln))])
    IN  IF StartsWith(low, "- year") THEN keep("year")
        ELSE IF StartsWith(low, "- make") THEN keep("make")
        ELSE IF StartsWith(low, "- model") THEN keep("model")
        ELSE IF StartsWith(low, "- color") THEN keep("color")
        ELSE IF StartsWith(low, "- description") THEN keep("vehicle_description")
        ELSE st

\* MULTILINE_RX (line 420): ^-\s*Multi-?line\s+text\s+field\s*:\s*(.*)$, the
\* text being the last atom but one
MultilinePat(ln) ==
    Lit("-") \o <<WsStar>> \o LitI("Multi") \o <<Opt({"-"})>> \o LitI("line") \o <<WsPlus>>
    \o LitI("text") \o <<WsPlus>> \o LitI("field") \o <<WsStar>> \o Lit(":")
    \o <<WsStar, Star(AnyChar(ln)), EOS>>

MultilineText(ln, pat) == Strip(Group(ln, 1, pat, Len(pat) - 1, Len(pat) - 1))

DetailsWith(st, ln, pat, colon) ==
    IF StartsWith(Lower(ln), "comments") THEN Continue([st EXCEPT !.last_field = "comment"])
    ELSE IF ReMatch(ln, pat) THEN SetField(st, "comment", MultilineText(ln, pat))
    ELSE IF ln \in {"Details", "Call Details", "Date & Time", "Date/Time"}
    THEN Continue([st EXCEPT !.last_field = ""])
    ELSE IF Contains(ln, "Company") \/ Contains(ln, "Vendor")
    THEN SetField(st, "company", AfterColon(ln))
    ELSE IF (StartsWith(ln, "Location") \/ StartsWith(ln, "- Location :")) /\ colon # 0
    THEN SetField(st, "location", Strip(SubSeq(ln, colon + 1, Len(ln))))
    ELSE IF StartsWith(ln, "Geolocation") \/ Contains(ln, "LOGBOOK PDF")
    THEN Continue([st EXCEPT !.last_field = ""])
    ELSE st

\* comments, company, location and the headers between them (lines 3155-3182)
Details(st, ln) == DetailsWith(st, ln, MultilinePat(ln), Find(ln, ":"))

\* the lengths past which a field takes no more lines (lines 3204 and 3211)
ShortFieldLimit == 200
LongFieldLimit == 800

starters ==
    {"Start Date", "Officer", "- Officer :", "Date & Time", "Date/Time", "- Date :",
     "- Time :", "Details", "Call Details", "Location", "- Location :", "Company",
     "- Company", "Vendor", "Comments", "- Multi-line text field", "Geolocation",
     "Evidence", "NEW ACTIVITY", "TOUR", "Start Time", "End Time", "Report Details",
     "Posts included", "Activities included", "New Group", "Tags", "Duration",
     "Max. Tour Duration", "- Picture", "Picture", "Key Service", "Loading Dock Gate",
     "Fire Panel", "Janitorial", "Transient Removal", "Retail Issues", "Tenant Issues",
     "Fire Panel Bypass/Online", "Incident", "Totals Activities", "Total Activities",
     "Activity Duration", "Object Duration", "AES Phone Call", "Work Order",
     "Other/Miscellaneous", "Synopsis", "Follow up", "Escalation?", "- Upload picture"}

is_new_block_line(ln, buffer) ==
    \/ ln = ""
    \/ \E w \in starters : StartsWith(ln, w)
    \/ Contains(ln, "(Officers)")
    \/ IsTimestampLine(ln) /\ ~StartsWith(Lower(Get(buffer, "category")), "incident report")
    \/ ~IsTimestampLine(ln) /\ ln \in {"300 Pine Street", "300 Pine Street Call Details"}

\* a line that continues the field before it (lines 3202-3213)
Continuation(st, ln) ==
    LET prev == Get(st.buffer, st.last_field)
        more(limit) ==
            Continue(IF Len(prev) < limit
                     THEN [st EXCEPT !.buffer = Put(@, st.last_field, Strip(prev \o " " \o ln))]
                     ELSE st)
    IN  IF is_new_block_line(ln, st.buffer) THEN st
        ELSE IF st.last_field \in {"action", "company", "location", "comment"}
        THEN more(ShortFieldLimit)
        ELSE IF st.last_field \in {"incident_description", "incident_comments"}
        THEN more(LongFieldLimit)
        ELSE st

(***************************************************************************)
(* The handlers in the order the loop body runs them.  Handlers the model  *)
(* does not describe are those of Unsupported and UnsupportedInBlock       *)
(* below; no document of the model has a line that reaches one.            *)
(***************************************************************************)
Handler(k, st, ln, lines, i) ==
    CASE k = 1 -> SkipEmpty(st, ln)
      [] k = 2 -> SkipNumbers(st, ln)
      [] k \in {3, 5} ->
             StartInside(st, ln,
                         IF k = 3 THEN "incident report" ELSE "elevator entrapment incident",
                         IF k = 3 THEN "incident_start" ELSE "elevator_start")
      [] k \in {4, 6} ->
             StartInsideSet(st, ln, IF k = 4 THEN "incident_start" ELSE "elevator_start")
      [] k \in {7, 9, 11} ->
             Stamp(st, ln, IF k = 7 THEN "key_stamp"
                           ELSE IF k = 9 THEN "dock_stamp" ELSE "fire_stamp")
      [] k \in {8, 10, 12} ->
             StampSet(st, ln, IF k = 8 THEN "key_stamp"
                              ELSE IF k = 10 THEN "dock_stamp" ELSE "fire_stamp")
      [] k = 13 -> OfficerAbove(st, ln, lines, i)
      [] k = 14 -> SpdHeader(st, ln, lines)
      [] k = 15 -> SpdBlock(st, ln, lines)
      [] k = 16 -> AmbassadorHeader(st, ln)
      [] k = 17 -> AmbassadorBlock(st, ln, lines)
      [] k = 18 -> UnsecureDoor(st, ln, lines)
      [] k = 19 -> Tour(st, ln)
      [] k = 20 -> LabelIncident(st, ln)
      [] k = 21 -> LabelTransient(st, ln)
      [] k = 22 -> LabelSet(st, ln)
      [] k = 23 -> Officer(st, ln)
      [] k = 24 -> NormalizeOfficer(st)
      [] k = 25 -> NewActivity(st, ln)
      [] k = 26 -> NewActivityDone(st)
      [] k = 27 -> StartDate(st, ln)
      [] k = 28 -> StartDateSet(st, ln)
      [] k = 29 -> Skipped(st, ln)
      [] k = 30 -> Content(st, ln)
      [] k = 31 -> IncidentStamp(st, ln)
      [] k = 32 -> IncidentFields(st, ln)
      [] k = 33 -> DescriptionMore(st, ln)
      [] k = 34 -> Vehicle(st, ln)
      [] k = 35 -> Details(st, ln)
      [] k = 36 -> Continuation(st, ln)

\* lines whose handler is not described: "who called" (2075-2096, 2398-2426),
\* "all persons involved" (2099-2155), the NEW ACTIVITY look-ahead
\* (2306-2332), a Start Date inside a line (3003-3022) and "parties
\* involved" (3085-3134)
Unsupported(ln) ==
    LET low == Lower(ln)
    IN  \/ ReSearch(low, Lit("who") \o <<WsStar>> \o Lit("called"))
        \/ ReSearch(low, Lit("all") \o <<WsStar>> \o Lit("persons") \o <<WsStar>>
                         \o Lit("involved"))
        \/ StartsWith(Strip(low), "new activity")
        \/ (ReSearch(low, Lit("start") \o <<WsStar>> \o Lit("date") \o <<WsStar>> \o Lit(":"))
            /\ ~StartsWith(ln, "Start Date"))
        \/ StartsWith(Strip(low), "parties involved")

\* a line that opens a sub-block
OpensBlock(ln) ==
    \/ Contains(Lower(ln), "spd presence/emergency response on")
    \/ Contains(Lower(ln), "seattle ambassadors")
    \/ Contains(Lower(ln), "unsecure door")

\* lines a sub-block can take in a branch that is not described: the
\* officer, location, date and time lines and the parties involved
\* (2368-2475, 2678-2704, 2765-2789)
UnsupportedInBlock(ln) ==
    \/ ReSearch(Lower(ln), Lit("-") \o <<WsStar, WordsI(<<"officer", "location", "date",
                                                          "time">>), WsStar>> \o Lit(":"))
    \/ Contains(Lower(ln), "officer :")
    \/ StartsWith(Lower(ln), "- officer")
    \/ StartsWith(Lower(ln), "- location")
    \/ Contains(Lower(ln), "pre-defined list")
    \/ ReSearch(Lower(ln), Lit("parties") \o <<WsStar>> \o Lit("involved"))
    \/ ReSearch(ln, <<IncidentLabel("date"), WsStar, One({":"})>>)
    \/ ReSearch(ln, <<IncidentLabel("time"), WsStar, One({":"})>>)

\* the model describes every handler the lines of document d reach
Supported(d) ==
    /\ \A k \in 1..Len(d) : ~Unsupported(d[k])
    /\ (\E k \in 1..Len(d) : OpensBlock(d[k])) => \A k \in 1..Len(d) : ~UnsupportedInBlock(d[k])

\* the loop body from handler k on, until the line is done with or
\* flush_event is called
RECURSIVE RunHandlers(_, _, _, _, _)
RunHandlers(st, k, ln, lines, i) ==
    IF k > 36 \/ st.done \/ st.call
    THEN [st EXCEPT !.stage = k]
    ELSE RunHandlers(Handler(k, st, ln, lines, i), k + 1, ln, lines, i)

(***************************************************************************)
(* The end of parse_events (lines 3222-3238)                               *)
(***************************************************************************)
Placeholder == "None to Report"

TransientSummary(n) ==
    "<font color=\"red\">Within the last 24 hours (<b>" \o Pad2(n)
    \o "</b>), transients were removed from the property.</font>"

\* every empty list gets the placeholder (lines 3223-3225)
Placeholders(parsed) ==
    [j \in 1..Len(parsed) |->
        IF parsed[j].items = <<>>
        THEN [name |-> parsed[j].name, items |-> <<Placeholder>>]
        ELSE parsed[j]]

\* the Transient Removal list becomes the count (lines 3228-3233)
TransientCollapse(parsed, transient_count) ==
    SetItems(parsed, "Transient Removal",
             IF transient_count > 0 THEN <<TransientSummary(transient_count)>>
             ELSE <<Placeholder>>)

\* list.sort(key=_extract_dt): stable, by insertion
RECURSIVE InsertByDt(_, _)
InsertByDt(sorted, x) ==
    IF sorted = <<>> THEN <<x>>
    ELSE IF _extract_dt(sorted[Len(sorted)]) <= _extract_dt(x) THEN Append(sorted, x)
    ELSE Append(InsertByDt(SubSeq(sorted, 1, Len(sorted) - 1), x), sorted[Len(sorted)])

RECURSIVE SortByDt(_)
SortByDt(items) ==
    IF items = <<>> THEN <<>>
    ELSE InsertByDt(SortByDt(SubSeq(items, 1, Len(items) - 1)), items[Len(items)])

\* the final sort (lines 3236-3238)
SortSections(parsed) ==
    [j \in 1..Len(parsed) |->
        IF parsed[j].items # <<>> /\ parsed[j].items[1] # Placeholder
        THEN [name |-> parsed[j].name, items |-> SortByDt(parsed[j].items)]
        ELSE parsed[j]]

(***************************************************************************)
(* The documents parse_events is run on                                    *)
(***************************************************************************)
\* the longest document of ShortDocuments
MaxLines == 3
\* the passes of the scan's while loop that are followed
MaxAiIters == 8

Vocabulary ==
    {"Start Date : 9/1/2025 8:00 AM", "Company : ABM", "Security action : talked",
     "Retail", "Transient Removal", "Other/Miscellaneous"}

\* every document of at most MaxLines lines of the vocabulary
ShortDocuments == UNION {[1..n -> Vocabulary] : n \in 0..MaxLines}

\* the scenario of the specification's end-to-end example
EndToEndDoc ==
    <<"Loading Dock Gate", "TEGEGNE Getachew", "Start Date : 9/1/2025 8:00 AM",
      "Security action : unlocked the gate for ABM", "Company : ABM", "9/1/2025 9:00 AM">>

\* an event no rule of classify() matches
UnclassifiedDoc == <<"Start Date : 9/1/2025 8:00 AM", "Security action : walked around">>

\* an Other/Miscellaneous mention on an end-of-section line
SummaryLineDoc == <<"Summary of Other/Miscellaneous", "Start Date : 9/1/2025 8:00 AM">>

\* an event with two label lines
TwoLabelsDoc == <<"Start Date : 9/1/2025 8:00 AM", "Tenant Phone", "Call Tenant">>

\* three Retail events, the first dated with the placeholder's text
PlaceholderDateDoc ==
    <<"Start Date : None to Report", "Retail", "Start Date : 9/1/2025 9:00 AM", "Retail",
      "Start Date : 9/1/2025 8:00 AM", "Retail">>

\* four Retail events out of order, two of them with a date that does not parse
UnsortedDoc ==
    <<"Start Date : 9/1/2025 9:00 AM", "Retail", "Start Date : 9/1/25 8:00 AM", "Retail",
      "Start Date : 9/1/2025 8:00 AM", "Retail", "Start Date : 9/1/2025 8:00AM", "Retail">>

\* a Transient Removal event that carries only its label
LabelOnlyDoc == <<"Transient Removal", "Start Date : 9/1/2025 8:00 AM">>

\* a Transient Removal label on an event that classifies as Retail Issues
TagSeenDoc ==
    <<"Start Date : 9/1/2025 8:00 AM", "Transient Removal", "Retail",
      "Security action : talked", "Start Date : 9/1/2025 9:00 AM">>

\* two Transient Removal events
TwoTransientsDoc ==
    <<"Start Date : 9/1/2025 8:00 AM", "Transient Removal",
      "Security action : removed a person", "Start Date : 9/1/2025 9:00 AM",
      "Transient Removal">>

\* an event with date, officer, company and location and nothing else
NoContentDoc ==
    <<"Start Date : 9/1/2025 8:00 AM", "TEGEGNE Getachew (Officers)", "Company : ABM",
      "Location : lobby", "Start Date : 9/1/2025 9:00 AM">>

\* a Loading Dock event, an AES event and an Additional Information block
DockDoc ==
    <<"Start Date : 9/1/2025 8:00 AM", "TEGEGNE Getachew (Officers)", "Loading Dock Gate",
      "Security action : lock the gate", "Company : UPS">>

AesDoc ==
    <<"Start Date : 9/1/2025 8:00 AM", "AES Phone Call", "- Operator name : Bob",
      "- Operator number : 12", "Security action : hold until 5pm">>

AdditionalDoc ==
    <<"hello world", "Start Date : 9/1/2025 8:00 AM", "TEGEGNE Getachew (Officers)",
      "Other/Miscellaneous", "- Multi-line text field : checked the lobby">>

\* two Loading Dock events with the same date, action and company
TwoDocksDoc ==
    <<"Start Date : 9/1/2025 8:00 AM", "Loading Dock Gate", "Security action : lock the gate",
      "Company : UPS", "Start Date : 9/1/2025 8:00 AM", "Loading Dock Gate",
      "Security action : lock the gate", "Company : UPS">>

\* a Loading Dock event with three bare timestamp lines, the first one
\* before the action and the company
StampRunDoc ==
    <<"Start Date : 9/1/2025 8:00 AM", "Loading Dock Gate", "9/1/2025 9:00 AM",
      "Security action : lock the gate", "Company : UPS", "9/1/2025 10:00 AM",
      "9/1/2025 11:00 AM">>

\* the lines of the sub-blocks: a TOUR line, the three headers, the closing
\* line and a Start Date
BlockVocabulary ==
    {"TOUR 1", "SPD Presence/Emergency Response on Site", "Seattle Ambassadors",
     "Unsecure door", "Close", "Start Date : 9/1/2025 8:00 AM"}

\* the longest document of BlockDocuments
MaxBlockLines == 3

BlockDocuments == UNION {[1..n -> BlockVocabulary] : n \in 1..MaxBlockLines}

\* the text s, n times
RECURSIVE Repeat(_, _)
Repeat(s, n) == IF n = 0 THEN "" ELSE s \o Repeat(s, n - 1)

\* an action of 200 characters and a long description of 800, each
\* followed by a line that continues it
LongActionDoc ==
    <<"Start Date : 9/1/2025 8:00 AM", "Retail",
      "Security action : " \o Repeat("0123456789", 20), "and more">>

LongDescriptionDoc ==
    <<"Start Date : 9/1/2025 8:00 AM",
      "- Long description of incident : " \o Repeat("0123456789", 80), "and more">>

\* a Retail event closed by an Incident Report label line
IncidentLabelDoc ==
    <<"Start Date : 9/1/2025 8:00 AM", "Retail", "Security action : talked",
      "Incident Report">>

SpdHeaderLine == "SPD Presence/Emergency Response on Site"

\* an SPD block with a long description, closed by Close
SpdClosedDoc ==
    <<"TEGEGNE Getachew (Officers)", SpdHeaderLine, "Start Date : 9/1/2025 8:00 AM",
      "- Long description of incident : A man fell", "Close">>

\* ... met by a second SPD header before its Close
SpdTwiceDoc ==
    <<SpdHeaderLine, "Start Date : 9/1/2025 8:00 AM",
      "- Long description of incident : A man fell", SpdHeaderLine, "Close">>

\* ... and met by the header of another block
SpdAmbassadorDoc ==
    <<SpdHeaderLine, "Start Date : 9/1/2025 8:00 AM",
      "- Long description of incident : A man fell", "Seattle Ambassadors", "Close">>

\* an Incident Report label line with a Start Date before and after it
IncidentStartDoc ==
    <<"Start Date : 9/1/2025 8:00 AM", "Incident Report", "Start Date : 9/1/2025 9:00 AM">>

\* ... and with an officer before it
IncidentOfficerDoc ==
    <<"TEGEGNE Getachew (Officers)", "Incident Report", "Start Date : 9/1/2025 9:00 AM">>

\* an elevator entrapment with a Start Date and the date and time of the
\* incident, closed by the Start Date of the next event
ElevatorDoc ==
    <<"Elevator Entrapment Incident", "Start Date : 9/1/2025 8:00 AM",
      "Incident Date: 9/3/2025", "Incident Time: 1400", "Security action : talked",
      "Start Date : 9/2/2025 9:00 AM">>

\* two work orders, each with its picture, its description and its answer
\* about Building Engines
TwoWorkOrdersDoc ==
    <<"Start Date : 9/1/2025 8:00 AM", "Work Order", "- Upload picture : a.jpg",
      "- Description : broken lamp", "- Work Order Placed on Building Engines : Yes",
      "Start Date : 9/2/2025 9:00 AM", "Work Order", "- Upload picture : b.jpg",
      "- Description : leaking pipe", "- Work Order Placed on Building Engines : Yes",
      "Start Date : 9/3/2025 9:00 AM">>

\* a work order labelled after the Start Date of an Incident Report
WorkOrderStartDoc ==
    <<"Incident Report", "Start Date : 9/1/2025 8:00 AM", "Work Order",
      "- Upload picture : a.jpg", "- Description : broken lamp",
      "- Work Order Placed on Building Engines : Yes", "Start Date : 9/2/2025 9:00 AM">>

ScenarioDocuments ==
    {EndToEndDoc, UnclassifiedDoc, SummaryLineDoc, TwoLabelsDoc, PlaceholderDateDoc,
     UnsortedDoc, LabelOnlyDoc, TagSeenDoc, TwoTransientsDoc, NoContentDoc, DockDoc,
     AesDoc, AdditionalDoc, TwoDocksDoc, StampRunDoc, LongActionDoc, LongDescriptionDoc,
     IncidentLabelDoc, SpdClosedDoc, SpdTwiceDoc, SpdAmbassadorDoc, IncidentStartDoc,
     IncidentOfficerDoc, ElevatorDoc, TwoWorkOrdersDoc, WorkOrderStartDoc}

Documents ==
    {d \in ShortDocuments \cup BlockDocuments \cup ScenarioDocuments : Supported(d)}

(***************************************************************************)
(* parse_events(lines) as a state machine.  A pass of the main loop is cut *)
(* where it calls flush_event, and flush_event where it starts its         *)
(* Additional Information scan; the scan takes one step per pass of its    *)
(* while loop.                                                             *)
(***************************************************************************)
VARIABLES
    lines,                  \* the argument of parse_events
    i,                      \* index of the main loop, from 0
    pc,                     \* "scan", "flush", "ai", "final", "done", "raised",
                            \* "outside"
    parsed, buffer, labels, last_field, transient_count, transient_tag_seen,
    in_tour, waiting_officer_nested,       \* the locals of parse_events
    in_spd, spd_buffer, in_ambassador, ambassador_buffer, in_unsecure,
    raised,                 \* the exception parse_events left with, "" if none
    sec,                    \* the local sec of the last flush_event
    at, carry, stage,       \* where the pass that called flush_event goes on
    ai_i,                   \* index of the while loop of the scan, from 0
    ai_iters,               \* history: passes of the while loop in this scan
    log,                    \* history: the calls of flush_event
    classified,             \* history: events classified Transient Removal
    collected,              \* history: the report before lines 3222-3238
    input_file,             \* the file name given to parse_date_range
    result                  \* the values a function called on its own returned

vars == <<lines, i, pc, parsed, buffer, labels, last_field, transient_count,
          transient_tag_seen, in_tour, waiting_officer_nested, in_spd, spd_buffer,
          in_ambassador, ambassador_buffer, in_unsecure, raised, at, carry,
          stage, ai_i, ai_iters, log, classified, collected, sec,
          input_file, result>>

Locals ==
    [parsed |-> parsed, buffer |-> buffer, labels |-> labels, last_field |-> last_field,
     transient_count |-> transient_count, transient_tag_seen |-> transient_tag_seen,
     in_tour |-> in_tour, waiting_officer_nested |-> waiting_officer_nested,
     in_spd |-> in_spd, spd_buffer |-> spd_buffer, in_ambassador |-> in_ambassador,
     ambassador_buffer |-> ambassador_buffer, in_unsecure |-> in_unsecure,
     raised |-> raised, sec |-> sec, at |-> at, carry |-> carry, stage |-> stage,
     log |-> log, classified |-> classified, done |-> FALSE, call |-> FALSE,
     scan |-> FALSE, outside |-> FALSE]

Store(st) ==
    /\ parsed' = st.parsed
    /\ buffer' = st.buffer
    /\ labels' = st.labels
    /\ last_field' = st.last_field
    /\ transient_count' = st.transient_count
    /\ transient_tag_seen' = st.transient_tag_seen
    /\ in_tour' = st.in_tour
    /\ in_spd' = st.in_spd
    /\ spd_buffer' = st.spd_buffer
    /\ in_ambassador' = st.in_ambassador
    /\ ambassador_buffer' = st.ambassador_buffer
    /\ in_unsecure' = st.in_unsecure
    /\ waiting_officer_nested' = st.waiting_officer_nested
    /\ raised' = st.raised
    /\ sec' = st.sec
    /\ at' = st.at
    /\ carry' = st.carry
    /\ log' = st.log
    /\ classified' = st.classified

\* stage when the flush is the final one (line 3219)
FinalStage == 0

\* where control is when flush_event has returned
Returns == IF stage = FinalStage THEN "final" ELSE "scan"

Init ==
    /\ lines \in Documents
    /\ i = 0
    /\ pc = "scan"
    /\ parsed = NewParsed
    /\ buffer = EmptyBuf
    /\ labels = {}
    /\ last_field = ""
    /\ transient_count = 0
    /\ transient_tag_seen = FALSE
    /\ in_tour = FALSE
    /\ in_spd = FALSE
    /\ spd_buffer = EmptyBuf
    /\ in_ambassador = FALSE
    /\ ambassador_buffer = EmptyBuf
    /\ in_unsecure = FALSE
    /\ waiting_officer_nested = FALSE
    /\ raised = ""
    /\ sec = ""
    /\ at = ""
    /\ carry = EmptyBuf
    /\ stage = 1
    /\ ai_i = 0
    /\ ai_iters = 0
    /\ log = <<>>
    /\ classified = 0
    /\ collected = NewParsed
    /\ input_file = ""
    /\ result = <<>>

\* the handlers of line i have run as far as st: to a call of flush_event,
\* or to the end of the pass
Goes(st) ==
    /\ Store(st)
    /\ pc' = IF st.call THEN "flush" ELSE "scan"
    /\ stage' = IF st.call THEN st.stage ELSE 1
    /\ i' = IF st.call THEN i ELSE i + 1

\* a pass of for i, ln in enumerate(lines) (lines 2032-3213), from its
\* start or from where flush_event returned to it
ScanLine ==
    /\ pc = "scan"
    /\ i < Len(lines)
    /\ Goes(RunHandlers(Locals, stage, Line(lines, i), lines, i))
    /\ UNCHANGED <<result, input_file, lines, ai_i, ai_iters, collected>>

\* the loop is over: the final flush (lines 3218-3219)
EndOfLines ==
    /\ pc = "scan"
    /\ i = Len(lines)
    /\ pc' = IF Truthy(buffer, "date") THEN "flush" ELSE "final"
    /\ stage' = FinalStage
    /\ UNCHANGED <<result, input_file, lines, i, parsed, buffer, labels, last_field, transient_count,
                   transient_tag_seen, in_tour, waiting_officer_nested, in_spd,
                   spd_buffer, in_ambassador, ambassador_buffer, in_unsecure, raised, at,
                   carry, ai_i, ai_iters, log, classified, collected, sec>>

\* flush_event (lines 449-2028), up to its scan when the section is
\* Additional Information; classify() meets the labels in some order
Flush ==
    /\ pc = "flush"
    /\ \E order \in Orders(labels) :
           \E st \in {flush_event(Locals, order, lines)} :
               /\ Store(st)
               /\ pc' = IF st.raised # "" THEN "raised"
                        ELSE IF st.outside THEN "outside"
                        ELSE IF st.scan THEN "ai" ELSE Returns
    /\ ai_i' = 0
    /\ ai_iters' = 0
    /\ UNCHANGED <<result, input_file, lines, i, stage, collected>>

\* a pass of the while loop of the Additional Information scan
\* (lines 1737-2013)
AiScanIter ==
    /\ pc = "ai"
    /\ ai_i < Len(lines)
    /\ ai_iters < MaxAiIters
    /\ \E r \in {AiIter(lines, ai_i, Items(parsed, "Additional Information"))} :
           /\ parsed' = SetItems(parsed, "Additional Information", r.ai)
           /\ ai_i' = r.i
    /\ ai_iters' = ai_iters + 1
    /\ UNCHANGED <<result, input_file, lines, i, pc, buffer, labels, last_field, transient_count,
                   transient_tag_seen, in_tour, waiting_officer_nested, in_spd,
                   spd_buffer, in_ambassador, ambassador_buffer, in_unsecure, raised, at,
                   carry, stage, log, classified, collected, sec>>

\* the scan is over: flush_event resets (lines 2024-2028) and returns
AiScanExit ==
    /\ pc = "ai"
    /\ ai_i >= Len(lines)
    /\ Store(FlushReset(Locals))
    /\ pc' = Returns
    /\ UNCHANGED <<result, input_file, lines, i, stage, ai_i, ai_iters, collected>>

\* the placeholders, the transient count and the sort (lines 3222-3240)
Finalize ==
    /\ pc = "final"
    /\ collected' = parsed
    /\ parsed' = SortSections(TransientCollapse(Placeholders(parsed), transient_count))
    /\ pc' = "done"
    /\ UNCHANGED <<result, input_file, lines, i, buffer, labels, last_field, transient_count,
                   transient_tag_seen, in_tour, waiting_officer_nested, in_spd,
                   spd_buffer, in_ambassador, ambassador_buffer, in_unsecure, raised, at,
                   carry, stage, ai_i, ai_iters, log, classified, sec>>

Next ==
    \/ ScanLine
    \/ EndOfLines
    \/ Flush
    \/ AiScanIter
    \/ AiScanExit
    \/ Finalize

Spec == Init /\ [][Next]_vars

(***************************************************************************)
(* classify() on its own: a buffer and a label set are chosen, then        *)
(* classify(buffer, labels) is called once and its result kept in sec.     *)
(***************************************************************************)
CategoryTexts ==
    {"", "AES Phone Call", "AES Phone Call Dock Gate", "Loading Dock Gate",
     "Dock Gate Key", "Key Service", "Fire Panel Key", "Hold until 5pm",
     "Transient Removal Work Order", "Work Order Retail", "Retail Incident Report",
     "Alarm Janitorial", "Janitorial Other/Miscellaneous", "Other/Miscellaneous",
     "Seattle Ambassadors", "Lobby"}

ActionTexts ==
    {"", "talked", "unlocked the gate for ABM", "ABM notified",
     "tenant reported stuck in elevator", "kone technician fixed the broken door",
     "returned keys", "key pickup", "tenant complaint about trash",
     "911 called for a tenant request", "hit the gate", "police responded", "alarm test",
     "removed a person", "building engines", "theft", "tenant reported a kone fault"}
CompanyTexts == {"", "ABM"}
LocationTexts == {"", "loading dock"}
LabelTexts == {"Tenant Phone", "Call Tenant"}

\* the buffer with the field k when v is not empty
WithField(b, k, v) == IF v = "" THEN b ELSE Put(b, k, v)

\* buffers without a category, and with each category text (the empty one too)
ClassifyBuffers ==
    {WithField(WithField(WithField(c, "action", a), "company", co), "location", lo) :
        c \in {EmptyBuf} \cup {Put(EmptyBuf, "category", t) : t \in CategoryTexts},
        a \in ActionTexts, co \in CompanyTexts, lo \in LocationTexts}

InitClassify ==
    /\ lines = <<>>
    /\ i = 0
    /\ pc = "classify"
    /\ parsed = NewParsed
    /\ buffer \in ClassifyBuffers
    /\ labels \in SUBSET LabelTexts
    /\ last_field = ""
    /\ transient_count = 0
    /\ transient_tag_seen = FALSE
    /\ in_tour = FALSE
    /\ in_spd = FALSE
    /\ spd_buffer = EmptyBuf
    /\ in_ambassador = FALSE
    /\ ambassador_buffer = EmptyBuf
    /\ in_unsecure = FALSE
    /\ waiting_officer_nested = FALSE
    /\ raised = ""
    /\ sec = ""
    /\ at = ""
    /\ carry = EmptyBuf
    /\ stage = 1
    /\ ai_i = 0
    /\ ai_iters = 0
    /\ log = <<>>
    /\ classified = 0
    /\ collected = NewParsed
    /\ input_file = ""
    /\ result = <<>>

\* sec = classify(buffer, labels), the label set iterated in some order
ClassifyStep ==
    /\ pc = "classify"
    /\ \E order \in Orders(labels) : sec' = classify(buffer, order)
    /\ pc' = "classified"
    /\ UNCHANGED <<result, input_file, lines, i, parsed, buffer, labels, last_field, transient_count,
                   transient_tag_seen, in_tour, waiting_officer_nested, in_spd,
                   spd_buffer, in_ambassador, ambassador_buffer, in_unsecure, raised, at,
                   carry, stage, ai_i, ai_iters, log, classified, collected>>

NextClassify == ClassifyStep

SpecClassify == InitClassify /\ [][NextClassify]_vars

(***************************************************************************)
(* The properties                                                          *)
(***************************************************************************)
\* C1: a flushed buffer that classify() maps to "Unclassified" adds no entry
\* to any category and is dropped silently: parse_events goes on and does
\* not end in an exception.
C1UnclassifiedDropped ==
    \A k \in 1..Len(log) :
        log[k].sec = "Unclassified" => (log[k].after = log[k].before /\ pc # "raised")

\* C2: parse_events never ends in an error state: no exception leaves it.
C2NeverRaises == raised = ""

\* C3: the Additional Information scan strictly advances on every pass of
\* its while loop, so that it terminates.
C3ScanAdvances == [][(pc = "ai" /\ pc' = "ai") => ai_i' > ai_i]_vars

\* the buffer has none of action, incident_description, incident_comments
\* and category: each is absent or empty
LacksContent(b) ==
    \A k \in {"action", "incident_description", "incident_comments", "category"} :
        Get(b, k) = ""

\* C4: whenever flush_event runs on a buffer with none of action,
\* incident_description, incident_comments and category, no entry is appended
\* to any category (and no Additional Information scan starts), whatever
\* date, officer, company or location the buffer holds.
C4EmptyBufferRule ==
    [][(pc = "flush" /\ LacksContent(buffer)) => (parsed' = parsed /\ pc' # "ai")]_vars

\* flush_event has run on a buffer that lacks the four fields but holds a
\* date, an officer, a company and a location
C4Witness ==
    \E k \in 1..Len(log) :
        /\ LacksContent(log[k].buffer)
        /\ \A f \in {"date", "officer", "company", "location"} : Truthy(log[k].buffer, f)
        /\ log[k].after = log[k].before

\* C5: classify() does not depend on the order in which the label set is
\* iterated: every order gives the same section for a flushed event.
C5OrderIndependent == \A k \in 1..Len(log) : Cardinality(log[k].options) <= 1

IsUnparsable(x) == _extract_dt(x) = DtMax

\* C6: in the returned report the timestamps of every category are non-
\* decreasing, the entries whose leading token does not parse coming last
\* and in the order in which they were appended.
C6SortInvariant ==
    pc = "done" =>
        \A j \in 1..Len(parsed) :
            /\ \A a \in 1..Len(parsed[j].items) : \A b \in a..Len(parsed[j].items) :
                   _extract_dt(parsed[j].items[a]) <= _extract_dt(parsed[j].items[b])
            /\ (collected[j].items # <<>> /\ parsed[j].name # "Transient Removal") =>
                   SelectSeq(parsed[j].items, IsUnparsable)
                       = SelectSeq(collected[j].items, IsUnparsable)

\* C7: when exactly N flushed events classify as Transient Removal, the
\* returned Transient Removal list is the one count summary carrying N when
\* N > 0 and the placeholder alone when N = 0.
C7TransientCollapse ==
    pc = "done" =>
        Items(parsed, "Transient Removal")
            = IF classified > 0 THEN <<TransientSummary(classified)>> ELSE <<Placeholder>>

\* C8: the returned report has exactly the 14 category names as keys in the
\* display order, every list is non-empty, a category that received no entry
\* holds the placeholder alone, and the placeholder never stands next to
\* real entries.
C8OutputShape ==
    pc = "done" =>
        /\ [j \in 1..Len(parsed) |-> parsed[j].name] = SECTIONS
        /\ \A j \in 1..Len(parsed) :
               /\ parsed[j].name # "Unclassified"
               /\ parsed[j].items # <<>>
               /\ collected[j].items = <<>> => parsed[j].items = <<Placeholder>>
               /\ Len(parsed[j].items) > 1 =>
                      \A a \in 1..Len(parsed[j].items) : parsed[j].items[a] # Placeholder

\* C9: the end-to-end scenario yields exactly one Loading Dock entry, which
\* names the officer Getachew Tegegne and mentions ABM.
C9EndToEnd ==
    (lines = EndToEndDoc /\ pc = "done") =>
        /\ Len(Items(parsed, "Loading Dock Access (Lock & Unlock)")) = 1
        /\ Contains(Items(parsed, "Loading Dock Access (Lock & Unlock)")[1],
                    "Getachew Tegegne")
        /\ Contains(Items(parsed, "Loading Dock Access (Lock & Unlock)")[1], "ABM")

\* the rules of the explicit layer as the specification lists them: the
\* substrings looked for in the lower-cased category text, and the category
ExplicitRules ==
    <<[keys |-> {"aes phone call"}, section |-> "AES Phone Calls"],
      [keys |-> {"loading dock", "dock gate"},
       section |-> "Loading Dock Access (Lock & Unlock)"],
      [keys |-> {"key service", "key"}, section |-> "Key Service (Lock & Unlock)"],
      [keys |-> {"bypass online", "fire panel", "fire system online", "until"},
       section |-> "Fire Panel Bypass/Online"],
      [keys |-> {"transient"}, section |-> "Transient Removal"],
      [keys |-> {"work order"}, section |-> "Work Orders"],
      [keys |-> {"retail"}, section |-> "Retail Issues"],
      [keys |-> {"incident report", "alarm"}, section |-> "Incident Reports (IR) / Alarms"],
      [keys |-> {"janitorial"}, section |-> "Janitorial"],
      [keys |-> {"other/miscellaneous"}, section |-> "Additional Information"]>>

\* the rules that match buffer b: the Loading Dock rule only when "abm" is
\* not in the action
MatchingRules(b) ==
    {k \in 1..Len(ExplicitRules) :
        /\ ContainsAny(Lower(b["category"]), ExplicitRules[k].keys)
        /\ k = 2 => ~Contains(Lower(Get(b, "action")), "abm")}

\* C10: when buffer.category is present, classify() returns the category of
\* the first explicit rule whose substring occurs in the lower-cased
\* category text, whatever the labels, the company and the location; the
\* heuristic layer decides only when no explicit rule matches.
C10ExplicitLayer ==
    (pc = "classified" /\ "category" \in DOMAIN buffer) =>
        IF MatchingRules(buffer) # {}
        THEN sec = ExplicitRules[SetMin(MatchingRules(buffer))].section
        ELSE sec \in {Heuristic(ClassifyText(buffer, o), buffer["category"]) :
                         o \in Orders(labels)}

\* classify() has decided by the Transient Removal rule for a category text
\* that the later Work Orders rule matches too, with labels, a company and a
\* location the heuristic layer would classify otherwise
C10Witness ==
    /\ pc = "classified"
    /\ "category" \in DOMAIN buffer
    /\ Cardinality(MatchingRules(buffer)) >= 2
    /\ labels # {}
    /\ Truthy(buffer, "company")
    /\ Truthy(buffer, "location")
    /\ sec = "Transient Removal"
    /\ Heuristic(ClassifyText(buffer, <<>>), buffer["category"]) # sec

\* the heuristic rules as the specification lists them, in their order:
\* whether the rule matches the text, and its category
HeuristicRules(txt, category) ==
    <<[hit |-> ContainsAny(txt, {"elevator entrapment incident", "stuck in elevator",
                                 "elevator incident", "got stuck in cap",
                                 "doors stayed closed", "kone technician", "otis elevator"}),
       section |-> "Elevator Entrapment Incidents"],
      [hit |-> /\ Contains(txt, "tenant")
               /\ ContainsAny(txt, {"issue", "concern", "complaint", "problem", "request",
                                    "notify", "notified", "reported"})
               /\ ~ContainsAny(txt, {"elevator", "entrapment", "kone", "otis"}),
       section |-> "Tenant Issues"],
      [hit |-> /\ ContainsAny(txt, {"damage", "bent", "broken", "crack", "dent",
                                    "unable to close", "hit", "struck", "collision",
                                    "impact"})
               /\ ContainsAny(txt, {"gate", "door", "frame", "lock", "glass",
                                    "loading dock"}),
       section |-> "Property Damage"],
      [hit |-> ContainsAny(txt, {"elevator", "entrapment"}) /\ ~Contains(txt, "tenant"),
       section |-> "Elevator Entrapment Incidents"],
      [hit |-> \/ ContainsAny(txt, {"spd presence", "emergency response on site",
                                    "spd response", "sfd medics", "911 called",
                                    "police responded", "medical emergency on site",
                                    "officer contacted spd", "security called 911",
                                    "security called spd"})
               \/ (Contains(txt, "spd") /\ Contains(txt, "response")),
       section |-> "SPD Presence/Emergency Response on Site"],
      [hit |-> /\ Contains(txt, "tenant")
               /\ ContainsAny(txt, {"issue", "concern", "complaint", "problem", "request",
                                    "notify", "notified", "reported"})
               /\ ~ContainsAny(txt, {"elevator", "entrapment"}),
       section |-> "Tenant Issues"],
      [hit |-> ContainsAny(txt, {"aes", "phone call"}), section |-> "AES Phone Calls"],
      [hit |-> /\ ContainsAny(txt, {"loading dock", "dock gate"})
               /\ ~ContainsAny(txt, {"abm notified", "upload picture"}),
       section |-> "Loading Dock Access (Lock & Unlock)"],
      [hit |-> Contains(txt, "key service") \/ KeyWordRx(txt),
       section |-> "Key Service (Lock & Unlock)"],
      [hit |-> ContainsAny(txt, {"panel", "bypass", "trbl", "supv", "fire alarm",
                                 "alarm test", "hold"}),
       section |-> "Fire Panel Bypass/Online"],
      [hit |-> \/ ContainsAny(txt, {"transient", "trespass"})
               \/ (Contains(txt, "removed") /\ Contains(txt, "person")),
       section |-> "Transient Removal"],
      [hit |-> ContainsAny(txt, {"work order", "building engines"}),
       section |-> "Work Orders"],
      [hit |-> \/ Contains(txt, "incident report") \/ IrNumberRx(txt)
               \/ ContainsAny(txt, {"police", "911", "injury", "assault", "theft",
                                    "robbery"}),
       section |-> "Incident Reports (IR) / Alarms"],
      [hit |-> \/ Lower(category) \in {"janitorial", "seattle ambassadors"}
               \/ ContainsAny(txt, {"janitorial", "upload picture", "abm", "clean",
                                    "trash", "garbage", "spill", "vacuum", "mop", "sweep",
                                    "ambassador", "mid call", "mid dispatch"}),
       section |-> "Janitorial"]>>

\* first match wins, "Unclassified" when no rule matches
FirstMatch(rules) ==
    IF \A k \in 1..Len(rules) : ~rules[k].hit THEN "Unclassified"
    ELSE rules[SetMin({k \in 1..Len(rules) : rules[k].hit})].section

\* no rule of the explicit layer applies to buffer b
NoExplicitRule(b) == "category" \in DOMAIN b => MatchingRules(b) = {}

\* the result the rule list gives for the text txt
HeuristicOutcome(sect, txt, category) ==
    /\ sect = FirstMatch(HeuristicRules(txt, category))
    /\ ContainsAny(txt, {"stuck in elevator", "kone technician"}) =>
           sect = "Elevator Entrapment Incidents"

\* C11: when no explicit rule applies, classify() returns what first-match-
\* wins evaluation of the ordered heuristic rule list gives for the joined
\* text; a text with an elevator-entrapment keyword classifies as Elevator
\* Entrapment Incidents whatever else it contains.
C11HeuristicLayer ==
    (pc = "classified" /\ NoExplicitRule(buffer)) =>
        \E o \in Orders(labels) :
            HeuristicOutcome(sec, ClassifyText(buffer, o), Get(buffer, "category"))

\* classify() has returned Elevator Entrapment Incidents for a text with an
\* elevator keyword that also holds a tenant word, with no explicit rule
C11Witness ==
    /\ pc = "classified"
    /\ NoExplicitRule(buffer)
    /\ Contains(Lower(Get(buffer, "action")), "stuck in elevator")
    /\ Contains(Lower(Get(buffer, "action")), "tenant reported")
    /\ sec = "Elevator Entrapment Incidents"

(***************************************************************************)
(* parse_date_range(lines, input_file) (lines 112-160): the header text    *)
(* and the file token of the report.                                       *)
(***************************************************************************)
\* [0-9/]+\s+\d{1,2}:\d{2}\s*[AP]M under re.IGNORECASE: the 8 atoms of a group
RangeStampPat ==
    <<Plus(DigitSet \cup {"/"}), Plus(SpaceSet), Rep(DigitSet, 1, 2)>> \o Lit(":")
    \o <<Rep(DigitSet, 2, 2), Star(SpaceSet), One({"A", "a", "P", "p"}), One({"M", "m"})>>

\* (group 1)\s*[-–]\s*(group 2): the atoms 1..8 and 12..19
RangeTail ==
    RangeStampPat \o <<Star(SpaceSet), One({"-", EnDash}), Star(SpaceSet)>>
    \o RangeStampPat

\* Period\s*:?[\s\n]* and Date\s*Range\s*:?[\s\n]*, under re.IGNORECASE
PeriodLabel == LitI("Period") \o <<Star(SpaceSet), Opt({":"}), Star(SpaceSet)>>
DateRangeLabel ==
    LitI("Date") \o <<Star(SpaceSet)>> \o LitI("Range")
    \o <<Star(SpaceSet), Opt({":"}), Star(SpaceSet)>>

\* m.group(1).strip(), m.group(2).strip() for the match at pos of a label
\* of n atoms followed by RangeTail
RangeSpans(raw, pos, lens, n) ==
    <<Strip(Span(raw, pos, lens, n + 1, n + 8)),
      Strip(Span(raw, pos, lens, n + 12, n + 19))>>

RangeFound(raw, found, pat, n) ==
    IF found = {} THEN <<>>
    ELSE RangeSpans(raw, SetMin(found), AtomLens(raw, SetMin(found), pat), n)

\* the start and the end re.search finds after label in raw, <<>> when there
\* is no match
RangeIn(raw, label) ==
    RangeFound(raw, Found(raw, label \o RangeTail), label \o RangeTail, Len(label))

\* s.replace(a, b) for characters a, b
ReplaceChar(s, a, b) ==
    Join([k \in 1..Len(s) |-> IF Char(s, k) = a THEN b ELSE Char(s, k)], "")

\* start.split()[0].replace("/", "-")
SimpleDate(stamp) == ReplaceChar(Split(stamp)[1], "/", "-")

\* lines 130-134: what is returned for an explicit range
RangeResult(r) ==
    <<r[1] \o " " \o EnDash \o " " \o r[2],
      SimpleDate(r[1]) \o "_to_" \o SimpleDate(r[2])>>

\* DATETIME_RX (line 89): \b(date)\s+(time)\b; atoms 2 mm, 4 dd, 6 yyyy,
\* 8 hour, 10 minutes, 11 blanks, 12 A or P
DATETIME_RX == <<WB>> \o DateTimePat \o <<WB>>

\* re.findall: where the matches of pat start, found from left to right, a
\* match starting where the one before ended or later
RECURSIVE FindAllFrom(_, _, _)
FindAllAt(s, found, pat) ==
    IF found = {} THEN {}
    ELSE {SetMin(found)} \cup FindAllFrom(s, MatchEnd(s, SetMin(found), pat), pat)
FindAllFrom(s, p, pat) == FindAllAt(s, {q \in p..Len(s) : MatchesAt(s, q, pat)}, pat)

\* the fields of the token DATETIME_RX matches at pos
TokenAt(raw, pos, lens) ==
    [mo |-> ToInt(Span(raw, pos, lens, 2, 2)), d |-> ToInt(Span(raw, pos, lens, 4, 4)),
     y |-> ToInt(Span(raw, pos, lens, 6, 6)), hh |-> ToInt(Span(raw, pos, lens, 8, 8)),
     mi |-> ToInt(Span(raw, pos, lens, 10, 10)),
     pm |-> Span(raw, pos, lens, 12, 12) \in {"P", "p"},
     blanks |-> Len(Span(raw, pos, lens, 11, 11))]

\* datetime.strptime(f"{d} {t.upper()}", "%m/%d/%Y %I:%M %p") does not raise:
\* the fields are in range, and AM or PM follows at least one blank
Usable(t) ==
    /\ t.mo \in 1..12
    /\ t.y >= 1
    /\ t.d \in 1..DaysInMonth(t.y, t.mo)
    /\ t.hh \in 1..12
    /\ t.mi \in 0..59
    /\ t.blanks >= 1

\* the datetime of a usable token, as its fields and its key
DateTimeOf(t) ==
    [y |-> t.y, mo |-> t.mo, d |-> t.d, hh |-> t.hh, mi |-> t.mi, pm |-> t.pm,
     key |-> DtKey(t.y, t.mo, t.d, (t.hh % 12) + (IF t.pm THEN 12 ELSE 0), t.mi)]

TokensAt(raw, starts) ==
    {TokenAt(raw, q, AtomLens(raw, q, DATETIME_RX)) : q \in starts}

\* dts (lines 137-144): the datetimes of the tokens of raw that parse
Datetimes(raw) ==
    {DateTimeOf(t) : t \in {u \in TokensAt(raw, FindAllFrom(raw, 1, DATETIME_RX)) : Usable(u)}}

\* min(dts) and max(dts)
MinDt(dts) == CHOOSE t \in dts : \A u \in dts : t.key <= u.key
MaxDt(dts) == CHOOSE t \in dts : \A u \in dts : u.key <= t.key

\* f"{n:04d}"
Pad4(n) ==
    IF n < 10 THEN "000" \o ToStr(n) ELSE IF n < 100 THEN "00" \o ToStr(n)
    ELSE IF n < 1000 THEN "0" \o ToStr(n) ELSE ToStr(n)

\* dt.strftime('%m/%d/%Y %I:%M %p') and dt.strftime('%m-%d-%Y')
FormatStamp(t) ==
    Pad2(t.mo) \o "/" \o Pad2(t.d) \o "/" \o Pad4(t.y) \o " " \o Pad2(t.hh) \o ":"
    \o Pad2(t.mi) \o (IF t.pm THEN " PM" ELSE " AM")
FormatDay(t) == Pad2(t.mo) \o "-" \o Pad2(t.d) \o "-" \o Pad4(t.y)

\* lines 145-150: what is returned for the datetimes sdt and edt
SpanResult(sdt, edt) ==
    <<FormatStamp(sdt) \o " " \o EnDash \o " " \o FormatStamp(edt),
      FormatDay(sdt) \o "_to_" \o FormatDay(edt)>>

\* os.path.basename(path)
BaseName(path) ==
    SubSeq(path, SetMax({0} \cup {k \in 1..Len(path) : Char(path, k) = "/"}) + 1, Len(path))

\* \d{2}\s*-\s*\d{2}\s*-\s*\d{2}: the 9 atoms of a group of the file name
FileDatePat ==
    <<Rep(DigitSet, 2, 2), Star(SpaceSet), One({"-"}), Star(SpaceSet),
      Rep(DigitSet, 2, 2), Star(SpaceSet), One({"-"}), Star(SpaceSet),
      Rep(DigitSet, 2, 2)>>

\* (group 1)\s*to\s*(group 2) under re.IGNORECASE: the atoms 1..9 and 14..22
FileRangePat == FileDatePat \o <<Star(SpaceSet)>> \o LitI("to") \o <<Star(SpaceSet)>>
                \o FileDatePat

FileSpans(fn, pos, lens) ==
    <<Unblank(Span(fn, pos, lens, 1, 9)), Unblank(Span(fn, pos, lens, 14, 22))>>

FileFound(fn, found) ==
    IF found = {} THEN <<>>
    ELSE FileSpans(fn, SetMin(found), AtomLens(fn, SetMin(found), FileRangePat))

\* lines 153-157: the two dates of the file name fn with the blanks removed,
\* <<>> when it holds none
FileRange(fn) == FileFound(fn, Found(fn, FileRangePat))

FileResult(r) == <<r[1] \o " to " \o r[2], r[1] \o "_to_" \o r[2]>>

\* the explicit range with the Date Range line read before the Period one
ExplicitRangeDateFirst(period, raw) ==
    IF RangeIn(raw, DateRangeLabel) # <<>> THEN RangeIn(raw, DateRangeLabel) ELSE period

\* the explicit range (lines 115-129): the one after Period, else the one
\* after Date Range, <<>> when there is neither
ExplicitRangeOf(period, raw) ==
    IF period # <<>> THEN period ELSE RangeIn(raw, DateRangeLabel)
ExplicitRange(raw) == ExplicitRangeOf(RangeIn(raw, PeriodLabel), raw)

ByFileName(r) == IF r # <<>> THEN FileResult(r) ELSE <<"Unknown Date Range", "unknown">>

ByTokens(dts, fn) ==
    IF dts # {} THEN SpanResult(MinDt(dts), MaxDt(dts))
    ELSE ByFileName(FileRange(BaseName(fn)))

ByExplicit(r, raw, fn) ==
    IF r # <<>> THEN RangeResult(r) ELSE ByTokens(Datetimes(raw), fn)

parse_date_range(doc, fn) == ByExplicit(ExplicitRange(Join(doc, "\n")), Join(doc, "\n"), fn)

(***************************************************************************)
(* The functions called on their own: an argument is chosen (lines holds   *)
(* it), the function is called once and what it returns is kept in result, *)
(* a tuple of the returned values.                                         *)
(***************************************************************************)
NameTokens ==
    {"TEGEGNE", "GETACHEW", "Getachew", "Tegegne", "Faiz", "Mohmand", "ali", "kassim",
     "mcCoy", "A", "B", "b"}

\* the names of two tokens
TwoTokenNames == {a \o " " \o b : a, b \in NameTokens}

\* the locals of parse_events before its loop, but for the buffer, which
\* may hold an officer, and for where control is; args and file are the
\* arguments of the call
InitFunction(args, file, at0) ==
    /\ lines = args
    /\ i = 0
    /\ pc = at0
    /\ parsed = NewParsed
    /\ labels = {}
    /\ last_field = ""
    /\ transient_count = 0
    /\ transient_tag_seen = FALSE
    /\ in_tour = FALSE
    /\ in_spd = FALSE
    /\ spd_buffer = EmptyBuf
    /\ in_ambassador = FALSE
    /\ ambassador_buffer = EmptyBuf
    /\ in_unsecure = FALSE
    /\ waiting_officer_nested = FALSE
    /\ raised = ""
    /\ sec = ""
    /\ at = ""
    /\ carry = EmptyBuf
    /\ stage = 1
    /\ ai_i = 0
    /\ ai_iters = 0
    /\ log = <<>>
    /\ classified = 0
    /\ collected = NewParsed
    /\ input_file = file
    /\ result = <<>>

InitNormalize ==
    \E name \in TwoTokenNames :
        InitFunction(<<name>>, "", "normalize") /\ buffer = Put(EmptyBuf, "officer", name)

\* the two normalisations of the officer buffer["officer"]: the one of the
\* scan (lines 2895-2905), which rewrites the buffer, and bold_officer
NormalizeStep ==
    /\ pc = "normalize"
    /\ buffer' = NormalizeOfficer(Locals).buffer
    /\ result' = <<bold_officer(buffer["officer"])>>
    /\ pc' = "normalized"
    /\ UNCHANGED <<lines, i, parsed, labels, last_field, transient_count,
                   transient_tag_seen, in_tour, waiting_officer_nested, in_spd,
                   spd_buffer, in_ambassador, ambassador_buffer, in_unsecure, raised, at,
                   carry, stage, ai_i, ai_iters, log, classified, collected, sec,
                   input_file>>

FirstWords ==
    {"open", "Open", "put", "putted", "leave", "LOCK", "walk", "Walk", "notice", "Notice",
     "checked", "Checked", "e", "ed", "bed"}

RestTexts == {"", " the gate", " the key back", "  twice ", " Open"}

\* the texts to_past_tense is called on: the empty one, a blank one, and
\* the first words followed by more text
PastTexts == {"", " "} \cup {w \o r : w \in FirstWords, r \in RestTexts}

InitPast == \E text \in PastTexts : InitFunction(<<text>>, "", "past") /\ buffer = EmptyBuf

\* result = to_past_tense(text) (lines 91-102)
PastTenseStep ==
    /\ pc = "past"
    /\ result' = <<to_past_tense(lines[1])>>
    /\ pc' = "past_done"
    /\ UNCHANGED <<lines, i, parsed, buffer, labels, last_field, transient_count,
                   transient_tag_seen, in_tour, waiting_officer_nested, in_spd,
                   spd_buffer, in_ambassador, ambassador_buffer, in_unsecure, raised, at,
                   carry, stage, ai_i, ai_iters, log, classified, collected, sec,
                   input_file>>

\* the lines of the documents parse_date_range is called on: a Period line,
\* a Date Range line, date-time tokens in and out of order, a token with
\* month 13, a token with no blank before AM, and a line with no date
DateLines ==
    {"Period : 9/1/2025 8:00 AM - 9/2/2025 8:00 AM",
     "Date Range 9/3/2025 8:00 AM ~ 9/4/2025 8:00 AM",
     "9/2/2025 12:30 AM", "9/1/2025 11:30 PM", "13/1/2025 8:00 AM", "9/5/2025 8:00AM",
     "Officer on site"}

MaxDateLines == 2

DateDocuments == UNION {[1..n -> DateLines] : n \in 0..MaxDateLines}

FileNames == {"DAR Report.pdf", "09-18-25 to 09-19-25.pdf", "in/09 - 18 - 25TO09-19-25.pdf"}

InitDateRange ==
    \E doc \in DateDocuments, file \in FileNames :
        InitFunction(doc, file, "date_range") /\ buffer = EmptyBuf

\* result = parse_date_range(lines, input_file) (lines 112-160)
DateRangeStep ==
    /\ pc = "date_range"
    /\ result' = parse_date_range(lines, input_file)
    /\ pc' = "date_range_done"
    /\ UNCHANGED <<lines, i, parsed, buffer, labels, last_field, transient_count,
                   transient_tag_seen, in_tour, waiting_officer_nested, in_spd,
                   spd_buffer, in_ambassador, ambassador_buffer, in_unsecure, raised, at,
                   carry, stage, ai_i, ai_iters, log, classified, collected, sec,
                   input_file>>

InitFunctions == InitNormalize \/ InitPast \/ InitDateRange

NextFunctions == NormalizeStep \/ PastTenseStep \/ DateRangeStep

SpecFunctions == InitFunctions /\ [][NextFunctions]_vars

\* the name the rule of the specification gives for the tokens first, second
SwapRule(first, second) ==
    IF IsUpper(first) /\ IsUpper(Char(second, 1))
       /\ IsLower(SubSeq(second, 2, Len(second)))
    THEN Capitalize(second) \o " " \o Capitalize(first)
    ELSE Capitalize(first) \o " " \o Capitalize(second)

\* C12: for a name of two tokens the scan-time normalisation and
\* bold_officer apply one rule: the tokens are swapped exactly when the first
\* is fully upper-case and the second begins upper-case and continues lower-
\* case, and both are title-cased.
C12OfficerNames ==
    (pc = "normalized" /\ Len(Split(lines[1])) = 2) =>
        /\ buffer["officer"] = SwapRule(Split(lines[1])[1], Split(lines[1])[2])
        /\ result[1] = "<b>Officer " \o SwapRule(Split(lines[1])[1], Split(lines[1])[2])
                        \o "</b>"

\* the rest of the words is kept: ws and rs agree from the second word on
SameRest(ws, rs) == Len(rs) = Len(ws) /\ \A k \in 2..Len(ws) : rs[k] = ws[k]

\* the first word by the rule, which reads the word in lower case: its
\* mapped form, itself when it ends in "ed", else with "d" or "ed" appended
LowerPast(w) ==
    IF Lower(w) \in DOMAIN VERB_MAP THEN VERB_MAP[Lower(w)]
    ELSE IF EndsWith(Lower(w), "ed") THEN w
    ELSE IF EndsWith(Lower(w), "e") THEN Lower(w) \o "d" ELSE Lower(w) \o "ed"

\* C13: to_past_tense changes only the first word, which is read in lower
\* case: a word of the verb map becomes its mapped form, another one gets
\* "d" appended when it ends in "e" and "ed" otherwise, unless it ends in
\* "ed", when it is kept as it stands; the other words are kept, joined by
\* single spaces; empty input is returned unchanged.
C13VerbMapping ==
    pc = "past_done" =>
        IF Split(lines[1]) = <<>> THEN result[1] = lines[1]
        ELSE /\ SameRest(Split(lines[1]), Split(result[1]))
             /\ Split(result[1])[1] = LowerPast(Split(lines[1])[1])
             /\ result[1] = Join(Split(result[1]), " ")

\* to_past_tense has returned "noticed the gate" for "Notice the gate"
C13Witness ==
    /\ pc = "past_done"
    /\ lines = <<"Notice the gate">>
    /\ result = <<"noticed the gate">>

\* the precedence of the sources: period and range are the ranges after
\* Period and after Date Range, dts the datetimes of the usable tokens, file
\* the dates of the file name (<<>> or {} where a source has none)
C14Precedence(period, range, dts, file) ==
    /\ period # <<>> => result = RangeResult(period)
    /\ (period = <<>> /\ range # <<>>) => result = RangeResult(range)
    /\ (period = <<>> /\ range = <<>> /\ dts # {}) =>
            /\ result = SpanResult(MinDt(dts), MaxDt(dts))
            /\ \A t \in dts : MinDt(dts).key <= t.key /\ t.key <= MaxDt(dts).key
    /\ (period = <<>> /\ range = <<>> /\ dts = {} /\ file # <<>>) =>
            result = FileResult(file)
    /\ result = <<"Unknown Date Range", "unknown">>
            <=> (period = <<>> /\ range = <<>> /\ dts = {} /\ file = <<>>)

\* C14: parse_date_range takes the range after Period before the one after
\* Date Range, either before the earliest and the latest of the date-time
\* tokens that parse (the start is then never later than the end), the
\* dates of the file name only when no token parses, and returns
\* ("Unknown Date Range", "unknown") exactly when all these sources fail.
C14DateRangePrecedence ==
    pc = "date_range_done" =>
        C14Precedence(RangeIn(Join(lines, "\n"), PeriodLabel),
                      RangeIn(Join(lines, "\n"), DateRangeLabel),
                      Datetimes(Join(lines, "\n")), FileRange(BaseName(input_file)))

\* a Date Range line came before the Period line, the file name holds dates,
\* and the range after Period was returned
C14Witness ==
    /\ pc = "date_range_done"
    /\ lines = <<"Date Range 9/3/2025 8:00 AM ~ 9/4/2025 8:00 AM",
                 "Period : 9/1/2025 8:00 AM - 9/2/2025 8:00 AM">>
    /\ input_file = "09-18-25 to 09-19-25.pdf"
    /\ result = <<"9/1/2025 8:00 AM ~ 9/2/2025 8:00 AM", "9-1-2025_to_9-2-2025">>

\* no entry stands twice in items
NoRepeats(items) == \A a, b \in 1..Len(items) : items[a] = items[b] => a = b

\* C15: in the report parse_events returns no category list holds the same
\* entry twice, also when two events of one category give the same text.
C15NoDuplicates == pc = "done" => \A j \in 1..Len(parsed) : NoRepeats(parsed[j].items)

\* the buffer b is of a Key Service, Loading Dock or Fire Panel event
InStampEvent(b) ==
    \/ Contains(Lower(Get(b, "category")), "key service")
    \/ Contains(Lower(Get(b, "category")), "loading dock")
    \/ Contains(Lower(Get(b, "category")), "dock gate")
    \/ Contains(Lower(Get(b, "category")), "fire panel")

\* the line before line i was a bare timestamp that flushed such an event
\* and became the date of the next one: the run of timestamps goes on
RunGoesOn ==
    /\ i >= 1
    /\ IsTimestampLine(Line(lines, i - 1))
    /\ log # <<>>
    /\ InStampEvent(log[Len(log)].buffer)
    /\ buffer = Put(EmptyBuf, "date", Line(lines, i - 1))

\* C16: a bare timestamp line that arrives while the buffer holds a date
\* calls flush_event when the event is a Key Service, Loading Dock or Fire
\* Panel one (with or without an action or a company in the buffer), also
\* as a later timestamp of a run; outside these events it never does.
C16BareTimestamps ==
    [][(pc = "scan" /\ stage = 1 /\ i < Len(lines) /\ IsTimestampLine(Line(lines, i)))
          => ((pc' = "flush")
                <=> (Truthy(buffer, "date") /\ (InStampEvent(buffer) \/ RunGoesOn)))]_vars

\* C17: while in_tour holds, a line that starts with neither NEW ACTIVITY
\* nor Start Date is swallowed: the pass calls no flush, leaves the buffer
\* and the report as they are and opens no sub-block.
C17TourSwallows ==
    [][(/\ pc = "scan" /\ stage = 1 /\ i < Len(lines) /\ in_tour
        /\ ~StartsWith(Line(lines, i), "NEW ACTIVITY")
        /\ ~StartsWith(Line(lines, i), "Start Date"))
          => (/\ pc' # "flush"
              /\ buffer' = buffer
              /\ parsed' = parsed
              /\ in_spd' = in_spd
              /\ in_ambassador' = in_ambassador
              /\ in_unsecure' = in_unsecure)]_vars

\* how many of the flags hold
Count(flags) == Cardinality({k \in 1..Len(flags) : flags[k]})

\* C18: in every state of the scan at most one of in_tour, in_spd,
\* in_ambassador and in_unsecure holds.
C18ModesExclusive == Count(<<in_tour, in_spd, in_ambassador, in_unsecure>>) <= 1

\* the fields a continuation line can lengthen, with their ceilings
Ceiling(f) ==
    IF f \in {"incident_description", "incident_comments"} THEN LongFieldLimit
    ELSE ShortFieldLimit

\* the step lengthened the field f of the buffer
Absorbed(f) ==
    /\ f \in DOMAIN buffer /\ f \in DOMAIN buffer'
    /\ Len(buffer'[f]) > Len(buffer[f])
    /\ StartsWith(buffer'[f], buffer[f])

\* C19: once action, company, location or comment holds 200 characters, or
\* incident_description or incident_comments 800, no later line is absorbed
\* into the field.
C19Ceilings ==
    [][\A f \in {"action", "company", "location", "comment", "incident_description",
                 "incident_comments"} :
          (f \in DOMAIN buffer /\ Len(buffer[f]) >= Ceiling(f)) => ~Absorbed(f)]_vars

\* the buffer b holds an action, an incident description or incident comments
HasNarrative(b) ==
    Truthy(b, "action") \/ Truthy(b, "incident_description") \/ Truthy(b, "incident_comments")

\* classify() sends the open event to one of the 14 sections
ClassifiesToSection ==
    \A order \in Orders(labels) :
        \E j \in 1..Len(SECTIONS) : classify(buffer, order) = SECTIONS[j]

\* C20: when the lines end, an open event that holds an action, an incident
\* description or incident comments and classifies to one of the 14
\* sections is flushed, with or without a date.
C20LastEventFlushed ==
    [][(pc = "scan" /\ i = Len(lines) /\ HasNarrative(buffer) /\ ClassifiesToSection)
          => pc' = "flush"]_vars

\* C21: when flush_event returns, from the discard path or from the classify
\* path, the buffer holds no field and the label set is empty; the pass that
\* goes on after the flush of an 'Incident Report' label line puts back only
\* the officer and the date it carried, next to the new category.
FlushReturns == pc \in {"flush", "ai"} /\ pc' \in {"scan", "final"}

CarryGoesOn == pc = "scan" /\ at = "label" /\ buffer = EmptyBuf /\ pc' = "scan"

C21FlushResets ==
    [][/\ FlushReturns => buffer' = EmptyBuf /\ labels' = {}
       /\ CarryGoesOn =>
              /\ DOMAIN buffer' = DOMAIN carry \cup {"category"}
              /\ DOMAIN carry \subseteq {"officer", "date"}
              /\ "date" \in DOMAIN carry => buffer'["date"] = carry["date"]
              /\ labels' = {Line(lines, i)}]_vars

\* flush_event has returned to an 'Incident Report' label line that carries
\* a field over, from an event that had a label
C21Witness ==
    /\ pc = "scan"
    /\ at = "label"
    /\ carry # EmptyBuf
    /\ buffer = EmptyBuf
    /\ labels = {}
    /\ log # <<>>
    /\ log[Len(log)].labels # {}
    /\ log[Len(log)].sec # ""

\* the sections whose branch of flush_event gives build_event_line the
\* action of the buffer, when it has one
ActionSections ==
    {"Loading Dock Access (Lock & Unlock)", "Tenant Issues", "Retail Issues",
     "Transient Removal"}

\* the buffer b passes the empty-buffer rule through its category alone
OnlyLabelled(b) ==
    /\ Truthy(b, "category")
    /\ ~Truthy(b, "action")
    /\ ~Truthy(b, "incident_description")
    /\ ~Truthy(b, "incident_comments")

\* C22: a flush whose buffer holds a category, a date and/or an officer but
\* no action, incident_description or incident_comments, and that classifies
\* as Loading Dock, Tenant Issues, Retail Issues or Transient Removal,
\* appends no entry: no entry is made only of a timestamp or an officer name.
C22ActionClause ==
    \A k \in 1..Len(log) :
        (log[k].sec \in ActionSections /\ OnlyLabelled(log[k].buffer))
            => log[k].after = log[k].before

\* the elevator-related terms of the first tenant rule (lines 246-248)
ElevatorTerms == {"elevator", "entrapment", "stuck in elevator", "kone", "otis"}

\* the joined text names a tenant, an issue keyword and an elevator term
TenantWithElevator(txt) ==
    /\ Contains(txt, "tenant")
    /\ ContainsAny(txt, TenantWords)
    /\ ContainsAny(txt, ElevatorTerms)

\* C23: when no explicit-tag rule applies, a text that contains 'tenant', an
\* issue keyword and an elevator-related term (elevator, entrapment, stuck in
\* elevator, kone, otis) is never classified as Tenant Issues, by the first
\* tenant rule or by the tenant fallback.
C23TenantExclusion ==
    (/\ pc = "classified"
     /\ NoExplicitRule(buffer)
     /\ \A o \in Orders(labels) : TenantWithElevator(ClassifyText(buffer, o)))
        => sec # "Tenant Issues"

\* a line that ends an SPD block or starts a block
SpdTerminator(ln) ==
    \/ StartsWith(Lower(Strip(ln)), "new activity")
    \/ Lower(Strip(ln)) = "close"
    \/ OpensBlock(ln)

\* the SPD section has one entry more, and it tells the description
SpdEntryAdded(before, after) ==
    /\ Len(after) = Len(before) + 1
    /\ SubSeq(after, 1, Len(before)) = before
    /\ Contains(after[Len(after)], "reported that")

\* C24: an SPD block that has captured a description is closed, and its
\* entry appended to 'SPD Presence/Emergency Response on Site', by the next
\* NEW ACTIVITY line, the next Close line or the next block header, a second
\* SPD header included.
C24SpdBlockKept ==
    [][(/\ pc = "scan"
        /\ i < Len(lines)
        /\ in_spd
        /\ Truthy(spd_buffer, "action")
        /\ SpdTerminator(Line(lines, i)))
          => /\ SpdEntryAdded(Items(parsed, SpdSection), Items(parsed', SpdSection))
             /\ spd_buffer' = EmptyBuf \/ ~Truthy(spd_buffer', "action")]_vars

\* the pass of a Start Date line starts with an Incident Report in the buffer
StartInReport ==
    /\ pc = "scan"
    /\ stage = 1
    /\ i < Len(lines)
    /\ StartsWith(Line(lines, i), "Start Date")
    /\ Lower(Get(buffer, "category")) = "incident report"

\* C25: a Start Date line that follows an 'Incident Report' label line (which
\* carried officer and date over) does not flush: it sets the date of the
\* event, appends no entry and leaves the category 'Incident Report' in the
\* buffer.
C25StartDateInReport ==
    [][StartInReport =>
          /\ pc' = "scan"
          /\ i' = i + 1
          /\ log' = log
          /\ parsed' = parsed
          /\ Get(buffer', "date") = AfterColon(Line(lines, i))
          /\ Get(buffer', "category") = Get(buffer, "category")
          /\ Get(buffer', "officer") = Get(buffer, "officer")]_vars

\* the entry the flush log[k] added to its section
Added(k) == Items(log[k].after, log[k].sec)[Len(Items(log[k].after, log[k].sec))]

\* the flush log[k] added an entry to the section sect
AddedTo(k, sect) ==
    /\ log[k].sec = sect
    /\ HasKey(log[k].after, sect)
    /\ Len(Items(log[k].after, sect)) = Len(Items(log[k].before, sect)) + 1

\* C26: when the buffer flushed as an Elevator Entrapment Incident holds a
\* start_date, the entry added starts with that Start Date, in its short-year
\* form (padded as build_event_line pads it, or not), whatever incident_date
\* and incident_time the buffer holds.
C26ElevatorStartDate ==
    \A k \in 1..Len(log) :
        (AddedTo(k, "Elevator Entrapment Incidents") /\ Truthy(log[k].buffer, "start_date"))
            => \/ StartsWith(Added(k), ShortStamp(Strip(log[k].buffer["start_date"])))
               \/ StartsWith(Added(k), FormatDate(Strip(log[k].buffer["start_date"])))

\* the lines of the event that is flushed while line i is read: from its
\* Start Date line up to the line before line i
EventStart == SetMax({1} \cup {j \in 1..i : StartsWith(lines[j], "Start Date")})
OwnLines == SubSeq(lines, EventStart, i)

\* a flush is adding an entry to Work Orders
WorkOrderAdded ==
    /\ pc = "flush" /\ pc' \in {"scan", "final"} /\ sec' = "Work Orders"
    /\ Len(Items(parsed', "Work Orders")) = Len(Items(parsed, "Work Orders")) + 1

\* C27: the entry of a Work Orders event is the one its own lines give: its
\* description is the text between the Description marker of the event and the
\* Work Order Placed on Building Engines marker that follows it, also when
\* the document holds another work order with another description.
C27OwnDescription ==
    [][WorkOrderAdded =>
          Items(parsed', "Work Orders")[Len(Items(parsed', "Work Orders"))]
              = WorkOrderEntry(WorkOrderDate(buffer), OwnLines)]_vars

\* a time stamp M/D/YYYY h:mm AM|PM that names a real time
WellFormed(date) == ReFullMatch(date, DateTimePat) /\ _extract_dt(FormatDate(date)) # DtMax

\* C28: an entry flush_event builds from a buffer whose date is a well-formed
\* M/D/YYYY h:mm AM|PM starts with the zero-padded MM/DD/YY h:mm AM|PM form of
\* that date, and the sort key _extract_dt reads from the entry is that time
\* and not the sentinel; for every section, Work Orders included.
C28PaddedStamp ==
    \A k \in 1..Len(log) :
        (AddedTo(k, log[k].sec) /\ WellFormed(Strip(Get(log[k].buffer, "date"))))
            => /\ StartsWith(Added(k), FormatDate(Strip(log[k].buffer["date"])))
               /\ _extract_dt(Added(k)) = _extract_dt(FormatDate(Strip(log[k].buffer["date"])))
               /\ _extract_dt(Added(k)) # DtMax

\* C29: to_past_tense is idempotent: converting the text it returned once more
\* gives the same text, for the verbs of VERB_MAP and for every other first
\* word.
C29PastTenseIdempotent ==
    pc = "past_done" => to_past_tense(result[1]) = result[1]

\* C30: the normalisation the scan applies to buffer["officer"] is stable: once
\* it has been applied, applying it again on a later line leaves the name in
\* the buffer as it is, also for a name of one-letter tokens such as A B.
C30OfficerStable ==
    pc = "normalized" => NormalizeOfficer(Locals).buffer = buffer

=============================================================================
